---- MODULE Spec2Model ----
(***************************************************************************)
(* A model of the DataCapsule storage and proof engine (dc-prototype):     *)
(*   - MERKLE-MODE (rexpapi): commits, the Orphan table, build_proof on    *)
(*     the server, verify_proof and the mirrored ReadState on the client;  *)
(*   - DAG-MODE (rbaseapi): write, sign, witness propagation,              *)
(*     best_effort_proof on the server and verify_proof on the client.     *)
(*                                                                         *)
(* Hashes are modelled as an ideal (collision free) hash: the hash of a    *)
(* value is a flat sequence of integers that encodes the hashed content in *)
(* prefix notation, so two hashes are equal exactly when their preimages   *)
(* are.  A signature is the pair (signing key, signed hash); it verifies   *)
(* under a key for a hash exactly when it was made by that key over that   *)
(* hash (unforgeability).                                                  *)
(***************************************************************************)
EXTENDS Integers, Sequences, FiniteSets, TLC

VARIABLES
    \* ---- build configuration (shared/config.rs), fixed by Init ----
    FANOUT,          \* branching factor of the Merkle trees
    CACHE_SIZE,      \* slots of ReadState.hash_cache / capacity of the proven cache
    SIG_AVOID,       \* signature avoidance iterations of build_proof
    m_budget,        \* ghost: the data blocks, buffered writes and commits of a MERKLE-MODE run
    \* ---- MERKLE-MODE client facing an arbitrary server ----
    v_read_state,    \* ClientConnection.read_state
    v_legit,         \* ghost: hashes that descend from a validly signed root
    v_last,          \* ghost: the last Proof exchange and its verdict
    \* ---- MERKLE-MODE server storage (server/storage.rs), one capsule ----
    m_ds,            \* DataStorage: record hash -> data
    m_rs,            \* RecordStorage: record hash -> parent node name
    m_ns,            \* NodeStorage: node name -> StoredNode
    m_os,            \* OrphanStorage: commit root -> signature
    \* ---- a MERKLE-MODE session and its client, honest server ----
    m_ctx,           \* the session's Option<DCContext>
    m_client,        \* the client's ReadState
    m_net,           \* responses in flight, each with the client's sync tag
    m_committed,     \* ghost: record hashes included in a successful commit
    m_ncommits,      \* ghost: Commit requests handled so far
    m_last,          \* ghost: the client's last typed response
    \* ---- concurrent MERKLE-MODE sessions on the shared tables ----
    o_sess,          \* per session: its Option<DCContext> and its position in handle_commit
    o_obs,           \* ghost: the last FreshestCommits answer
    o_log,           \* ghost: the commits that replied Response::Commit
    o_chain,         \* ghost: is the commit history one non-branching writer's
    o_ncommits,      \* ghost: Commit requests taken so far
    \* ---- DAG-MODE server storage (server/storage.rs), one capsule ----
    d_hs,            \* RecordHeaderStorage: headers, reverse_ptrs, heads, roots
    d_bs,            \* RecordBodyStorage: body_ptr -> body
    d_ws,            \* RecordWitnessStorage: record name -> RecordWitness
    \* ---- a DAG-MODE session, its client and the propagation tasks ----
    d_ctx,           \* the session's Option<DCContext>: its client_proven_hash_cache
    d_client,        \* the client's proven_hash_cache
    d_tasks,         \* the update_ancestor_witnesses tasks spawned so far
    d_last,          \* ghost: the last request and its outcome, or the last witness update
    d_solo,          \* ghost: the task whose Sign has had the server to itself, or 0
    d_signs,         \* ghost: Sign requests the run may still make
    d_proofs,        \* ghost: Proof requests the run may still make
    d_first,         \* ghost: the first record the server stored, if any
    \* ---- DAG-MODE client facing an arbitrary server ----
    dv_cache,        \* the client's proven_hash_cache
    dv_legit,        \* ghost: names signed by the writer or linked to such a name
    dv_last,         \* ghost: the last Proof exchange and its verdict
    \* ---- the DAG-MODE server process and its per-peer sessions (server/withp2p.rs) ----
    h_ms,            \* DCMetadataStorage: the capsules whose metadata is stored
    h_peer,          \* per peer name: its per_client_pipes entry, queue and session context
    h_up,            \* is the server process running
    h_envs,          \* ghost: envelopes the peers may still send
    h_last,          \* ghost: the last envelope dispatched or batch processed
    h_store,         \* per session: its position in RecordHeaderStorage::store and its locals
    \* ---- a TCP writer connection (rustdc): client halves, server loop, buffers ----
    t_ops,           \* the operations of the do_operations call in progress
    t_send,          \* send_operations: its position and the operations fed so far
    t_recv,          \* receive_operations: its position, responses done, the response held
    t_ret,           \* do_operations: idle, running, or what the last call returned
    t_wbuf,          \* the client's Framed write buffer: requests fed and not yet written
    t_c2s,           \* requests in transit to the server
    t_srv,           \* process_writer: its position and the response it holds
    t_sbuf,          \* the server's Framed write buffer
    t_s2c,           \* responses in transit to the client
    t_tags,          \* the unbounded channel of (Sync, record name) tags
    t_nsent,         \* ghost: requests fed on the connection so far
    t_nread,         \* ghost: responses read from the connection so far
    t_last,          \* ghost: the last response paired with a tag
    t_batches,       \* ghost: do_operations calls the run may still make
    t_faults,        \* ghost: storage failures the server may still meet
    \* ---- the checkpointing writer client (rustdc client_internal) ----
    k_conn,          \* WriterConnection: checkpoint, sequence number, uncommitted hashes
    k_last,          \* ghost: the last do_operations call and what the server answered
    \* ---- a library function called on its own ----
    f_call,          \* the arguments of the call
    f_ret            \* what the call returned, None before it returns

cfgVars == <<FANOUT, CACHE_SIZE, SIG_AVOID, m_budget>>
mvVars  == <<v_read_state, v_legit, v_last>>
mstVars == <<m_ds, m_rs, m_ns, m_os>>
msVars  == <<m_ctx, m_client, m_net, m_committed, m_ncommits, m_last>>
orVars  == <<o_sess, o_obs, o_log, o_chain, o_ncommits>>
dstVars == <<d_hs, d_bs, d_ws>>
dsVars  == <<d_ctx, d_client, d_tasks, d_last, d_solo, d_signs, d_proofs, d_first>>
dvVars  == <<dv_cache, dv_legit, dv_last>>
hVars   == <<h_ms, h_peer, h_up, h_envs, h_last, h_store>>
tVars   == <<t_ops, t_send, t_recv, t_ret, t_wbuf, t_c2s, t_srv, t_sbuf, t_s2c, t_tags,
             t_nsent, t_nread, t_last, t_batches, t_faults, k_conn, k_last>>
fnVars  == <<f_call, f_ret>>
dagVars == <<dstVars, dsVars, dvVars>>
merkleVars == <<mvVars, mstVars, msVars, orVars>>
vars    == <<cfgVars, mvVars, mstVars, msVars, orVars, dagVars, hVars, tVars, fnVars>>

-----------------------------------------------------------------------------
(* Bounds of the model *)

MaxCacheSize == 2       \* CACHE_SIZE ranges over 1..MaxCacheSize
MaxSigAvoid  == 2       \* SIG_AVOID ranges over 0..MaxSigAvoid
MaxAdvNodes  == 2       \* nodes in one Proof response of an arbitrary server
MaxAdvChain  == 2       \* headers in one ReadProof response of an arbitrary server
MaxFanout    == 2       \* FANOUT ranges over 2..MaxFanout
NData        == 2       \* distinct data blocks a client writes
MaxUncommitted == 2     \* writes a session buffers before it commits
MaxCommits   == 2       \* Commit requests of a run
MaxOrphanCommits == 2   \* Commit requests of the concurrent sessions together
MaxSigns     == 2       \* Sign requests, each spawning a propagation task
MaxProofSigns == 1      \* Sign requests of a run that also asks for proofs
MaxProofs    == 2       \* Proof requests of a run
MaxInFlight  == 1       \* responses sent and not yet processed by the client

-----------------------------------------------------------------------------
(* Option values *)

None      == <<>>
Some(x)   == <<x>>
IsSome(o) == Len(o) = 1
Unwrap(o) == o[1]

-----------------------------------------------------------------------------
(* shared/crypto.rs *)

NULL_HASH == <<0>>

\* SHA-256 of a data block: data blocks are numbered 1, 2, ...
hash_data(d) == <<d>>

RECURSIVE Flatten(_)
Flatten(s) == IF s = <<>> THEN <<>> ELSE Head(s) \o Flatten(Tail(s))

\* SHA-256 of the concatenation of the FANOUT child hashes of a node
hash_node(node) == <<-1>> \o Flatten(node)

\* ECDSA: a signature made with `key` over `hash`
sign(hash, key) == [by |-> key, msg |-> hash]

\* a faulty variant: the key is not looked at
verify_signature_anykey(signature, hash, key) == signature.msg = hash

verify_signature(signature, hash, key) ==
    signature.by = key /\ signature.msg = hash

-----------------------------------------------------------------------------
(* shared/merkle.rs *)

\* the i-th group of FANOUT hashes of a layer, the last one padded
Group(layer, i) ==
    [j \in 1..FANOUT |->
        IF (i - 1) * FANOUT + j <= Len(layer)
        THEN layer[(i - 1) * FANOUT + j]
        ELSE NULL_HASH]

LenNextLayer(layer) == (Len(layer) - 1) \div FANOUT + 1

NextLayer(layer) ==
    [i \in 1..LenNextLayer(layer) |-> hash_node(Group(layer, i))]

RECURSIVE RootLoop(_)
RootLoop(current_layer) ==
    LET next_layer == NextLayer(current_layer)
    IN  IF Len(next_layer) = 1 THEN next_layer[1] ELSE RootLoop(next_layer)

\* a faulty variant: the additional hash is the last leaf, not the first
merkle_tree_root_additional_last(hashes, additional_hash) ==
    RootLoop(hashes \o <<additional_hash>>)

merkle_tree_root(hashes, additional_hash) ==
    RootLoop(<<additional_hash>> \o hashes)

\* a faulty variant: the parents of the inner tree blocks are never set
SetParents_skipped(treeblocks, current_layer, next_layer) == treeblocks

\* sets the parent of the current layer's tree blocks (depth > 0)
SetParents(treeblocks, current_layer, next_layer) ==
    LET start_idx == Len(treeblocks) - Len(next_layer) - Len(current_layer)
    IN  [p \in 1..Len(treeblocks) |->
            IF p > start_idx /\ p <= start_idx + Len(current_layer)
            THEN [treeblocks[p] EXCEPT
                     !.parent = Some(next_layer[((p - start_idx - 1) \div FANOUT) + 1])]
            ELSE treeblocks[p]]

RECURSIVE StorageLoop(_, _, _, _, _)
StorageLoop(current_layer, depth, treeblocks, records, additional_hash_parent) ==
    LET next_layer == NextLayer(current_layer)
        pushed == treeblocks \o
                  [i \in 1..Len(next_layer) |->
                      [name |-> next_layer[i], parent |-> None, signed |-> FALSE,
                       children |-> Group(current_layer, i)]]
        records1 == IF depth = 0
                    THEN [i \in 1..(Len(current_layer) - 1) |->
                             [name |-> current_layer[i + 1],
                              parent |-> next_layer[(i \div FANOUT) + 1]]]
                    ELSE records
        ahp1 == IF depth = 0 THEN next_layer[1] ELSE additional_hash_parent
        treeblocks1 == IF depth = 0 THEN pushed
                       ELSE SetParents(pushed, current_layer, next_layer)
    IN  IF Len(next_layer) = 1
        THEN [records |-> records1,
              treeblocks |-> [treeblocks1 EXCEPT ![Len(treeblocks1)].signed = TRUE],
              additional_hash_parent |-> ahp1,
              root |-> next_layer[1],
              depth |-> depth + 1]
        ELSE StorageLoop(next_layer, depth + 1, treeblocks1, records1, ahp1)

\* a faulty variant: the signed bit is put on the first tree block
merkle_tree_storage_first_signed(hashes, additional_hash) ==
    LET r == StorageLoop(<<additional_hash>> \o hashes, 0, <<>>, <<>>, NULL_HASH)
    IN  [r EXCEPT !.treeblocks = [p \in 1..Len(r.treeblocks) |->
                                     [r.treeblocks[p] EXCEPT !.signed = (p = 1)]]]

\* record blocks, tree blocks, the parent of the additional hash, the root, its depth
merkle_tree_storage(hashes, additional_hash) ==
    StorageLoop(<<additional_hash>> \o hashes, 0, <<>>, <<>>, NULL_HASH)

-----------------------------------------------------------------------------
(* shared/readstate.rs *)

RECURSIVE WordSum(_, _)
WordSum(h, i) ==
    IF i > Len(h) THEN 0
    ELSE i * (IF h[i] < 0 THEN -h[i] ELSE h[i]) + WordSum(h, i + 1)

\* the first four bytes of a hash read as an integer
HashWord(h) == WordSum(h, 1)

cache_index(hash) == HashWord(hash) % CACHE_SIZE

ReadState_new ==
    [hash_cache       |-> [i \in 0..(CACHE_SIZE - 1) |-> NULL_HASH],
     last_signed_hash |-> NULL_HASH,
     last_proven_node |-> [i \in 1..FANOUT |-> NULL_HASH]]

contains(rs, hash) ==
    \/ \E i \in 1..FANOUT : rs.last_proven_node[i] = hash
    \/ rs.hash_cache[cache_index(hash)] = hash
    \/ rs.last_signed_hash = hash

add_signed_hash(rs, hash) ==
    [rs EXCEPT !.hash_cache[cache_index(rs.last_signed_hash)] = rs.last_signed_hash,
               !.last_signed_hash = hash]

RECURSIVE DemoteAll(_, _, _)
DemoteAll(cache, node, i) ==
    IF i > Len(node) THEN cache
    ELSE DemoteAll([cache EXCEPT ![cache_index(node[i])] = node[i]], node, i + 1)

add_proven_node(rs, hashes) ==
    [rs EXCEPT !.hash_cache = DemoteAll(rs.hash_cache, rs.last_proven_node, 1),
               !.last_proven_node = hashes]

-----------------------------------------------------------------------------
(* client/p2pclient.rs (MERKLE-MODE): verify_proof *)

RECURSIVE VerifyNodes(_, _, _)
VerifyNodes(rs, nodes, i) ==
    IF i > Len(nodes) THEN [ok |-> TRUE, rs |-> rs]
    ELSE IF contains(rs, hash_node(nodes[i]))
         THEN VerifyNodes(add_proven_node(rs, nodes[i]), nodes, i + 1)
         ELSE [ok |-> FALSE, rs |-> rs]

\* returns the verdict and the ReadState the call leaves behind
verify_proof(expected_hash, root, nodes, writer_public_key, read_state) ==
    IF IsSome(root) /\ ~verify_signature(Unwrap(root).sig, Unwrap(root).hash, writer_public_key)
    THEN [ok |-> FALSE, rs |-> read_state]
    ELSE LET rs1 == IF IsSome(root)
                    THEN add_signed_hash(read_state, Unwrap(root).hash)
                    ELSE read_state
             r   == VerifyNodes(rs1, nodes, 1)
         IN  IF ~r.ok THEN r
             ELSE [ok |-> contains(r.rs, expected_hash), rs |-> r.rs]

-----------------------------------------------------------------------------
(* The capsule, its keys and the data blocks *)

CreatorKey == "creator"
WriterKey == "writer"
ServerKey == "server"
OtherKey  == "other"

\* SHA-256 over the creator key bytes, the writer key bytes and the description;
\* descriptions are numbered 1, 2, ...
hash_dc_metadata(c_pk, w_pk, desc) ==
    LET bytes(k) == CASE k = CreatorKey -> 1 [] k = WriterKey -> 2
                      [] k = ServerKey -> 3 [] k = OtherKey -> 4 [] OTHER -> 5
    IN  <<-3, bytes(c_pk), bytes(w_pk), desc>>

\* the name of the capsule the sessions of the model work on
dc_name == hash_dc_metadata(CreatorKey, WriterKey, 1)

\* its metadata, signed by the creator
GoodMetadata ==
    [creator_pub_key |-> CreatorKey, writer_pub_key |-> WriterKey, description |-> 1,
     signature |-> sign(dc_name, CreatorKey)]

SeqsUpTo(S, n) == UNION {[1..k -> S] : k \in 0..n}

-----------------------------------------------------------------------------
(* server/storage.rs (MERKLE-MODE): the sled trees as finite maps *)

EmptyMap == [k \in {} |-> NULL_HASH]

\* Tree::insert
Store(map, key, value) ==
    [k \in DOMAIN map \cup {key} |-> IF k = key THEN value ELSE map[k]]

\* Tree::remove
Remove(map, key) == [k \in DOMAIN map \ {key} |-> map[k]]

\* Tree::get
Get(map, key) == IF key \in DOMAIN map THEN Some(map[key]) ELSE None

\* a faulty variant: the replacement drops every other head
OrphanRemove_others(os, old_commit_name) == EmptyMap

\* OrphanStorage::replace, its two steps
OrphanInsert(os, commit_name, signature) == Store(os, commit_name, signature)
OrphanRemove(os, old_commit_name) == Remove(os, old_commit_name)

\* OrphanStorage::all_orphans
all_orphans(os) == DOMAIN os

-----------------------------------------------------------------------------
(* server/writer.rs (MERKLE-MODE) *)

DCContext_new == [uncommitted_hashes |-> <<>>, read_state |-> ReadState_new]

RECURSIVE StoreRecords(_, _, _)
StoreRecords(rs, rbs, i) ==
    IF i > Len(rbs) THEN rs
    ELSE StoreRecords(Store(rs, rbs[i].name, rbs[i].parent), rbs, i + 1)

RECURSIVE StoreNodes(_, _, _)
StoreNodes(ns, tns, i) ==
    IF i > Len(tns) THEN ns
    ELSE StoreNodes(Store(ns, tns[i].name,
                          [parent |-> tns[i].parent, root_info |-> None,
                           children |-> tns[i].children]),
                    tns, i + 1)

\* the last, signed node
StoreRoot(ns, mts, client_signature) ==
    LET root == mts.treeblocks[Len(mts.treeblocks)]
    IN  Store(ns, root.name,
              [parent |-> None,
               root_info |-> Some([depth |-> mts.depth, sig |-> client_signature]),
               children |-> root.children])

\* set parent of additional hash if node exists and has none
StitchParent(ns, additional_hash, additional_hash_parent) ==
    IF additional_hash \in DOMAIN ns /\ ns[additional_hash].parent = None
    THEN [ns EXCEPT ![additional_hash].parent = Some(additional_hash_parent)]
    ELSE ns

\* a faulty variant: a failed Init unbinds the session
handle_init_unbinds(name, stored, ctx) ==
    IF name \in stored THEN [resp |-> [type |-> "Init"], ctx |-> Some(DCContext_new)]
    ELSE [resp |-> [type |-> "Failed"], ctx |-> None]

\* handle_init on the session's Option<DCContext>; `stored` are the capsules
\* whose metadata MetaStorage::get_writer_pk finds
handle_init(name, stored, ctx) ==
    IF name \notin stored THEN [resp |-> [type |-> "Failed"], ctx |-> ctx]
    ELSE [resp |-> [type |-> "Init"], ctx |-> Some(DCContext_new)]

\* a faulty variant: a rejected Commit keeps the uncommitted hashes
handle_commit_keeps_rejected(ctx, st, additional_hash, client_signature) ==
    LET mts  == merkle_tree_storage(ctx.uncommitted_hashes, additional_hash)
        ctx1 == [ctx EXCEPT !.uncommitted_hashes = <<>>]
    IN  IF ~verify_signature(client_signature, mts.root, WriterKey)
        THEN [resp |-> [type |-> "Failed"], ctx |-> ctx, st |-> st, ok |-> FALSE]
        ELSE LET rs1 == StoreRecords(st.rs, mts.records, 1)
                 ns1 == StoreNodes(st.ns, mts.treeblocks, 1)
                 ns2 == StoreRoot(ns1, mts, client_signature)
                 os1 == OrphanRemove(OrphanInsert(st.os, mts.root, client_signature),
                                     additional_hash)
                 ns3 == StitchParent(ns2, additional_hash, mts.additional_hash_parent)
             IN  [resp |-> [type |-> "Commit", sig |-> sign(mts.root, ServerKey)],
                  ctx  |-> ctx1,
                  st   |-> [ds |-> st.ds, rs |-> rs1, ns |-> ns3, os |-> os1],
                  ok   |-> TRUE]

\* handle_commit: the reply and the tables and session it leaves behind
handle_commit(ctx, st, additional_hash, client_signature) ==
    LET mts  == merkle_tree_storage(ctx.uncommitted_hashes, additional_hash)
        ctx1 == [ctx EXCEPT !.uncommitted_hashes = <<>>]
    IN  IF ~verify_signature(client_signature, mts.root, WriterKey)
        THEN [resp |-> [type |-> "Failed"], ctx |-> ctx1, st |-> st, ok |-> FALSE]
        ELSE LET rs1 == StoreRecords(st.rs, mts.records, 1)
                 ns1 == StoreNodes(st.ns, mts.treeblocks, 1)
                 ns2 == StoreRoot(ns1, mts, client_signature)
                 os1 == OrphanRemove(OrphanInsert(st.os, mts.root, client_signature),
                                     additional_hash)
                 ns3 == StitchParent(ns2, additional_hash, mts.additional_hash_parent)
             IN  [resp |-> [type |-> "Commit", sig |-> sign(mts.root, ServerKey)],
                  ctx  |-> ctx1,
                  st   |-> [ds |-> st.ds, rs |-> rs1, ns |-> ns3, os |-> os1],
                  ok   |-> TRUE]

\* a faulty variant: the climb does not stop at a cached record or node hash
RECURSIVE ProofClimb_past_cache(_, _, _, _, _)
ProofClimb_past_cache(ns, read_state, hash, parent, nodes) ==
    IF parent \notin DOMAIN ns
    THEN [failed |-> TRUE]
    ELSE LET parent_node == ns[parent]
             nodes1 == Append(nodes, parent_node.children)
         IN  IF IsSome(parent_node.root_info)
             THEN IF ~contains(read_state, parent)
                  THEN [failed |-> FALSE, nodes |-> nodes1,
                        root |-> Some([sig |-> Unwrap(parent_node.root_info).sig,
                                       hash |-> parent]),
                        root_parent |-> parent_node.parent]
                  ELSE [failed |-> FALSE, nodes |-> nodes1, root |-> None,
                        root_parent |-> None]
             ELSE IF parent_node.parent = None
                  THEN [failed |-> TRUE]
                  ELSE ProofClimb_past_cache(ns, read_state, parent,
                                             Unwrap(parent_node.parent), nodes1)

\* build_proof, the climb from the record to a cached hash or to a signed root
RECURSIVE ProofClimb(_, _, _, _, _)
ProofClimb(ns, read_state, hash, parent, nodes) ==
    IF contains(read_state, hash)
    THEN [failed |-> FALSE, nodes |-> nodes, root |-> None, root_parent |-> None]
    ELSE IF parent \notin DOMAIN ns
    THEN [failed |-> TRUE]
    ELSE LET parent_node == ns[parent]
             nodes1 == Append(nodes, parent_node.children)
         IN  IF IsSome(parent_node.root_info)
             THEN IF ~contains(read_state, parent)
                  THEN [failed |-> FALSE, nodes |-> nodes1,
                        root |-> Some([sig |-> Unwrap(parent_node.root_info).sig,
                                       hash |-> parent]),
                        root_parent |-> parent_node.parent]
                  ELSE [failed |-> FALSE, nodes |-> nodes1, root |-> None,
                        root_parent |-> None]
             ELSE IF parent_node.parent = None
                  THEN [failed |-> TRUE]
                  ELSE ProofClimb(ns, read_state, parent, Unwrap(parent_node.parent), nodes1)

\* build_proof, signature avoidance: the extra nodes up to a cached ancestor
RECURSIVE AvoidLoop(_, _, _, _)
AvoidLoop(ns, read_state, root_parent, extras) ==
    IF Len(extras) >= SIG_AVOID \/ root_parent = None
       \/ Unwrap(root_parent) \notin DOMAIN ns
    THEN [found |-> FALSE, extras |-> extras]
    ELSE LET p == Unwrap(root_parent)
             extras1 == Append(extras, ns[p].children)
         IN  IF contains(read_state, p)
             THEN [found |-> TRUE, extras |-> extras1]
             ELSE AvoidLoop(ns, read_state, ns[p].parent, extras1)

Reverse(s) == [i \in 1..Len(s) |-> s[Len(s) + 1 - i]]

RECURSIVE AddProvenNodes(_, _, _)
AddProvenNodes(rs, nodes, i) ==
    IF i > Len(nodes) THEN rs
    ELSE AddProvenNodes(add_proven_node(rs, nodes[i]), nodes, i + 1)

\* a faulty variant: the nodes are sent leaf-first
ProofNodes_unreversed(nodes) == nodes

\* build_proof: nodes.reverse(), so that the node closest to the root comes first
ProofNodes(nodes) == Reverse(nodes)

\* build_proof: the reply and the session it leaves behind
build_proof(hash, ctx, st) ==
    IF hash \notin DOMAIN st.rs
    THEN [resp |-> [type |-> "Failed"], ctx |-> ctx]
    ELSE LET c == ProofClimb(st.ns, ctx.read_state, hash, st.rs[hash], <<>>)
         IN  IF c.failed
             THEN [resp |-> [type |-> "Failed"], ctx |-> ctx]
             ELSE LET a == IF IsSome(c.root) /\ SIG_AVOID > 0
                           THEN AvoidLoop(st.ns, ctx.read_state, c.root_parent, <<>>)
                           ELSE [found |-> FALSE, extras |-> <<>>]
                      root  == IF a.found THEN None ELSE c.root
                      nodes == ProofNodes(IF a.found THEN c.nodes \o a.extras ELSE c.nodes)
                      rs1   == IF IsSome(root)
                               THEN add_signed_hash(ctx.read_state, Unwrap(root).hash)
                               ELSE ctx.read_state
                      rs2   == AddProvenNodes(rs1, nodes, 1)
                  IN  [resp |-> [type |-> "Proof", root |-> root, nodes |-> nodes],
                       ctx  |-> [ctx EXCEPT !.read_state = rs2]]

\* handle_write
handle_write(data, ctx, st) ==
    [resp |-> [type |-> "Write"],
     ctx  |-> [ctx EXCEPT !.uncommitted_hashes = Append(@, hash_data(data))],
     st   |-> [st EXCEPT !.ds = Store(@, hash_data(data), data)]]

-----------------------------------------------------------------------------
(* client/p2pclient.rs (MERKLE-MODE): response_to_client_response *)

response_to_client_response(resp, sync, read_state) ==
    CASE resp.type = "Init" /\ sync.type = "Init" ->
            [out |-> [kind |-> "Init"], rs |-> ReadState_new]
      [] resp.type = "Write" /\ sync.type = "Write" ->
            [out |-> [kind |-> "Write"], rs |-> read_state]
      [] resp.type = "Commit" /\ sync.type = "Commit" ->
            [out |-> [kind |-> IF verify_signature(resp.sig, sync.hash, ServerKey)
                               THEN "Commit" ELSE "CryptographyFail"],
             rs |-> read_state]
      [] resp.type = "Proof" /\ sync.type = "Proof" ->
            LET r == verify_proof(sync.hash, resp.root, resp.nodes, WriterKey, read_state)
            IN  [out |-> [kind |-> "Proof", ok |-> r.ok], rs |-> r.rs]
      [] OTHER -> [out |-> [kind |-> "ServerFail"], rs |-> read_state]

-----------------------------------------------------------------------------
(* shared/dc_repr.rs and shared/crypto.rs (DAG-MODE) *)

\* a RecordHeader; the offsets of the back pointers are kept out, nothing reads them
RecordHeader(body_ptr, record_backptrs) ==
    [body_ptr |-> body_ptr, record_backptrs |-> record_backptrs]

\* hashes body_ptr and then every back pointer's ptr
hash_record_header(record_header) ==
    <<-2, Len(record_header.record_backptrs)>> \o record_header.body_ptr
        \o Flatten(record_header.record_backptrs)

BackPtrs(record_header) ==
    {record_header.record_backptrs[i] : i \in 1..Len(record_header.record_backptrs)}

\* enum RecordWitness
WitnessNone == [tag |-> "None"]
WitnessSignature(signature) == [tag |-> "Signature", signature |-> signature]
NextRecordPtr(next, dist) == [tag |-> "NextRecordPtr", next |-> next, dist |-> dist]

closer_than(self, other) ==
    CASE self.tag = "None" -> FALSE
      [] self.tag = "Signature" -> other.tag # "Signature"
      [] self.tag = "NextRecordPtr" ->
            \/ other.tag = "None"
            \/ other.tag = "NextRecordPtr" /\ self.dist < other.dist

\* a faulty variant: the proposed witness always wins
closer_latest(w1, w2) == w2

closer(w1, w2) == IF closer_than(w1, w2) THEN w1 ELSE w2

-----------------------------------------------------------------------------
(* server/storage.rs (DAG-MODE) *)

\* RecordWitnessStorage::get: a missing entry reads as RecordWitness::None
ws_get(ws, record_name) ==
    IF record_name \in DOMAIN ws THEN ws[record_name] ELSE WitnessNone

\* a faulty variant: the proposed witness is stored whatever the old one is
update_record_witness_overwrite(ws, record_name, new_proposed_witness) ==
    [ws  |-> Store(ws, record_name, new_proposed_witness),
     old |-> ws_get(ws, record_name)]

\* RecordWitnessStorage::update_record_witness: one fetch_and_update; returns
\* the previous value
update_record_witness(ws, record_name, new_proposed_witness) ==
    LET old_witness == ws_get(ws, record_name)
    IN  [ws  |-> Store(ws, record_name, closer(old_witness, new_proposed_witness)),
         old |-> old_witness]

\* a faulty variant: the set of incoming pointers is never found
get_incoming_ptrs_none(rp, record_name) == {}

\* RecordHeaderStorage::get_incoming_ptrs(..).unwrap_or(HashSet::new())
get_incoming_ptrs(rp, record_name) ==
    IF record_name \in DOMAIN rp THEN rp[record_name] ELSE {}

RECURSIVE AddReversePtrs(_, _, _, _)
AddReversePtrs(rp, record_name, backptrs, i) ==
    IF i > Len(backptrs) THEN rp
    ELSE AddReversePtrs(Store(rp, backptrs[i],
                              get_incoming_ptrs(rp, backptrs[i]) \cup {record_name}),
                        record_name, backptrs, i + 1)

\* the records the depth-first search from `stack` visits along reverse pointers
RECURSIVE ReverseVisited(_, _, _, _)
ReverseVisited(headers, rp, stack, visited) ==
    IF stack = {} THEN visited
    ELSE LET v == visited \cup stack
         IN  ReverseVisited(headers, rp,
                 {c \in UNION {get_incoming_ptrs(rp, x) : x \in stack} :
                     c \in DOMAIN headers} \ v,
                 v)

\* the records the depth-first search from `stack` visits along back pointers
RECURSIVE ForwardVisited(_, _, _)
ForwardVisited(headers, stack, visited) ==
    IF stack = {} THEN visited
    ELSE LET v == visited \cup stack
         IN  ForwardVisited(headers,
                 {c \in UNION {IF x \in DOMAIN headers THEN BackPtrs(headers[x]) ELSE {} :
                                  x \in stack} :
                     c \in DOMAIN headers} \ v,
                 v)

\* a faulty variant: the record stored last is always made a head, with no
\* search for the records that already point to it
hs_store_newest_is_head(hs, record_name, record_header) ==
    [headers |-> Store(hs.headers, record_name, record_header),
     reverse_ptrs |-> AddReversePtrs(hs.reverse_ptrs, record_name,
                                     record_header.record_backptrs, 1),
     heads |-> (hs.heads \ BackPtrs(record_header)) \cup {record_name},
     roots |-> hs.roots]

\* RecordHeaderStorage::store; no replica is tracked, so replica_buffer is empty
hs_store(hs, record_name, record_header) ==
    LET headers == Store(hs.headers, record_name, record_header)
        rp      == AddReversePtrs(hs.reverse_ptrs, record_name,
                                  record_header.record_backptrs, 1)
        heads1  == hs.heads \ BackPtrs(record_header)
        roots1  == hs.roots \ get_incoming_ptrs(rp, record_name)
        new_heads == {x \in ReverseVisited(headers, rp, {record_name}, {}) :
                         \A c \in get_incoming_ptrs(rp, x) : c \notin DOMAIN headers}
        new_roots == {x \in ForwardVisited(headers, {record_name}, {}) :
                         x \in DOMAIN headers =>
                             \A c \in BackPtrs(headers[x]) : c \notin DOMAIN headers}
    IN  [headers |-> headers, reverse_ptrs |-> rp,
         heads |-> heads1 \cup new_heads, roots |-> roots1 \cup new_roots]

\* the trees of a capsule after Create: init_marked
hs_new ==
    [headers |-> EmptyMap, reverse_ptrs |-> EmptyMap,
     heads |-> {dc_name}, roots |-> {dc_name}]

-----------------------------------------------------------------------------
(* quick_cache::sync::Cache<Hash, ()> with capacity CACHE_SIZE: a set; an   *)
(* insert into a full cache evicts an entry, which one is the cache's      *)
(* choice (the new entry included).                                        *)

cache_get(cache, hash) == hash \in cache

\* the caches an insert can leave behind
cache_insert(cache, hash) ==
    IF hash \in cache THEN {cache}
    ELSE IF Cardinality(cache) < CACHE_SIZE THEN {cache \cup {hash}}
    ELSE {cache} \cup {(cache \ {e}) \cup {hash} : e \in cache}

\* the caches that inserting hashes[i..] one after the other can leave behind
RECURSIVE cache_insert_all(_, _, _)
cache_insert_all(caches, hashes, i) ==
    IF i > Len(hashes) THEN caches
    ELSE cache_insert_all(UNION {cache_insert(c, hashes[i]) : c \in caches}, hashes, i + 1)

ChainNames(chain) == [i \in 1..Len(chain) |-> hash_record_header(chain[i])]

-----------------------------------------------------------------------------
(* server/writer.rs (DAG-MODE) *)

\* store_record: the body under body_ptr, the header under its name
store_record(record, bs, hs) ==
    LET record_name == hash_record_header(record.header)
    IN  [bs |-> Store(bs, record.header.body_ptr, record.body),
         hs |-> hs_store(hs, record_name, record.header),
         record_name |-> record_name]

dag_handle_write(record, bs, hs) ==
    LET r == store_record(record, bs, hs)
    IN  [resp |-> [type |-> "WriteData", record_name |-> r.record_name],
         bs |-> r.bs, hs |-> r.hs]

\* read_record: the record, or the MissingStorage error
read_record(record_name, bs, hs) ==
    IF record_name \notin DOMAIN hs.headers THEN [ok |-> FALSE]
    ELSE LET header == hs.headers[record_name]
         IN  IF header.body_ptr \notin DOMAIN bs THEN [ok |-> FALSE]
             ELSE [ok |-> TRUE,
                   record |-> [body |-> bs[header.body_ptr], header |-> header]]

\* a propagation task as spawned by handle_sign
TaskNew(base_record_name) ==
    [base |-> base_record_name, pc |-> "start", curr_wave |-> <<>>, i |-> 1,
     next_wave |-> <<>>, dist_from_new_sig |-> 0]

TaskEnd(task, pc) ==
    [base |-> task.base, pc |-> pc, curr_wave |-> <<>>, i |-> 1,
     next_wave |-> <<>>, dist_from_new_sig |-> 0]

TaskFinished(task) == task.pc \in {"done", "failed"}

\* handle_sign: the reply, the witness table and the spawned task (if any)
\* a faulty variant: the signature is stored without being verified
handle_sign_unverified(record_name, signature, ws) ==
    [resp |-> [type |-> "WriteSign", record_name |-> record_name,
               sig |-> sign(record_name, ServerKey)],
     ws |-> update_record_witness(ws, record_name, WitnessSignature(signature)).ws,
     spawned |-> Some(TaskNew(record_name))]

handle_sign(record_name, signature, ws) ==
    IF ~verify_signature(signature, record_name, WriterKey)
    THEN [resp |-> [type |-> "Failed"], ws |-> ws, spawned |-> None]
    ELSE [resp |-> [type |-> "WriteSign", record_name |-> record_name,
                    sig |-> sign(record_name, ServerKey)],
          ws |-> update_record_witness(ws, record_name, WitnessSignature(signature)).ws,
          spawned |-> Some(TaskNew(record_name))]

\* (p.ptr, record_name) for every back pointer of the header
WaveOf(record_header, record_name) ==
    [j \in 1..Len(record_header.record_backptrs) |->
        [record_name |-> record_header.record_backptrs[j], parent_record_name |-> record_name]]

\* a faulty variant: the distance of the first wave is 0
TaskStart_from_zero(task, hs) ==
    IF task.base \notin DOMAIN hs.headers THEN TaskEnd(task, "failed")
    ELSE LET wave == WaveOf(hs.headers[task.base], task.base)
         IN  IF wave = <<>> THEN TaskEnd(task, "done")
             ELSE [task EXCEPT !.pc = "wave", !.curr_wave = wave, !.i = 1,
                               !.next_wave = <<>>, !.dist_from_new_sig = 0]

\* update_ancestor_witnesses up to the first wave: reads the base header
TaskStart(task, hs) ==
    IF task.base \notin DOMAIN hs.headers THEN TaskEnd(task, "failed")
    ELSE LET wave == WaveOf(hs.headers[task.base], task.base)
         IN  IF wave = <<>> THEN TaskEnd(task, "done")
             ELSE [task EXCEPT !.pc = "wave", !.curr_wave = wave, !.i = 1,
                               !.next_wave = <<>>, !.dist_from_new_sig = 1]

\* a faulty variant: an entry whose witness was not closer is tried again in
\* the next wave
TaskWaveEntry_retries(task, hs, ws) ==
    LET entry == task.curr_wave[task.i]
    IN  IF entry.record_name \notin DOMAIN hs.headers
        THEN [task |-> TaskEnd(task, "failed"), ws |-> ws, updated |-> None]
        ELSE LET new_proposed_witness ==
                     NextRecordPtr(entry.parent_record_name, task.dist_from_new_sig)
                 u == update_record_witness(ws, entry.record_name, new_proposed_witness)
                 next_wave ==
                     IF closer_than(new_proposed_witness, u.old)
                     THEN task.next_wave
                              \o WaveOf(hs.headers[entry.record_name], entry.record_name)
                     ELSE Append(task.next_wave, entry)
                 task1 ==
                     IF task.i < Len(task.curr_wave)
                     THEN [task EXCEPT !.i = task.i + 1, !.next_wave = next_wave]
                     ELSE IF next_wave = <<>> THEN TaskEnd(task, "done")
                     ELSE [task EXCEPT !.curr_wave = next_wave, !.i = 1,
                                       !.next_wave = <<>>,
                                       !.dist_from_new_sig = task.dist_from_new_sig + 1]
             IN  [task |-> task1, ws |-> u.ws,
                  updated |-> Some([record_name |-> entry.record_name, old |-> u.old,
                                    proposed |-> new_proposed_witness])]

\* update_ancestor_witnesses, one entry of curr_wave: the task and the witness
\* table it leaves behind, and the update it made
TaskWaveEntry(task, hs, ws) ==
    LET entry == task.curr_wave[task.i]
    IN  IF entry.record_name \notin DOMAIN hs.headers
        THEN [task |-> TaskEnd(task, "failed"), ws |-> ws, updated |-> None]
        ELSE LET new_proposed_witness ==
                     NextRecordPtr(entry.parent_record_name, task.dist_from_new_sig)
                 u == update_record_witness(ws, entry.record_name, new_proposed_witness)
                 next_wave ==
                     IF closer_than(new_proposed_witness, u.old)
                     THEN task.next_wave
                              \o WaveOf(hs.headers[entry.record_name], entry.record_name)
                     ELSE task.next_wave
                 task1 ==
                     IF task.i < Len(task.curr_wave)
                     THEN [task EXCEPT !.i = task.i + 1, !.next_wave = next_wave]
                     ELSE IF next_wave = <<>> THEN TaskEnd(task, "done")
                     ELSE [task EXCEPT !.curr_wave = next_wave, !.i = 1,
                                       !.next_wave = <<>>,
                                       !.dist_from_new_sig = task.dist_from_new_sig + 1]
             IN  [task |-> task1, ws |-> u.ws,
                  updated |-> Some([record_name |-> entry.record_name, old |-> u.old,
                                    proposed |-> new_proposed_witness])]

\* best_effort_proof, the walk along the witnesses
RECURSIVE ProofWalk(_, _, _, _, _)
ProofWalk(hs, ws, client_proven_hash_cache, curr, chain) ==
    IF curr \notin DOMAIN hs.headers
    THEN [chain |-> chain, signature |-> None, completed |-> FALSE]
    ELSE LET chain1 == Append(chain, hs.headers[curr])
             witness_for_curr == ws_get(ws, curr)
         IN  IF cache_get(client_proven_hash_cache, curr)
             THEN [chain |-> chain1, signature |-> None, completed |-> TRUE]
             ELSE CASE witness_for_curr.tag = "Signature" ->
                         [chain |-> chain1,
                          signature |-> Some([record_name |-> curr,
                                              sig |-> witness_for_curr.signature]),
                          completed |-> TRUE]
                    [] witness_for_curr.tag = "NextRecordPtr" ->
                         ProofWalk(hs, ws, client_proven_hash_cache,
                                   witness_for_curr.next, chain1)
                    [] OTHER ->
                         [chain |-> chain1, signature |-> None, completed |-> FALSE]

\* best_effort_proof: the proofs and caches it can leave behind (a completed
\* proof inserts every name of the chain into the mirror cache)
best_effort_proof(record_name, hs, ws, client_proven_hash_cache) ==
    LET w == ProofWalk(hs, ws, client_proven_hash_cache, record_name, <<>>)
    IN  {[proof |-> [chain |-> w.chain, signature |-> w.signature],
          completed |-> w.completed, cache |-> c] :
            c \in IF w.completed
                  THEN cache_insert_all({client_proven_hash_cache}, ChainNames(w.chain), 1)
                  ELSE {client_proven_hash_cache}}

-----------------------------------------------------------------------------
(* client/p2pclient.rs (DAG-MODE): verify_proof *)

\* the index of the first header of the chain with the given name
RECURSIVE FirstIndex(_, _, _)
FirstIndex(chain, record_name, i) ==
    IF i >= Len(chain) \/ hash_record_header(chain[i]) = record_name THEN i
    ELSE FirstIndex(chain, record_name, i + 1)

\* the while loop over the chain from its i-th header on
RECURSIVE VerifyChain(_, _, _)
VerifyChain(chain, proven_hash_cache, i) ==
    IF i > Len(chain) THEN {[ok |-> FALSE, cache |-> proven_hash_cache]}
    ELSE LET prev_record_name == hash_record_header(chain[i - 1])
             curr_record_name == hash_record_header(chain[i])
         IN  IF cache_get(proven_hash_cache, curr_record_name)
             THEN {[ok |-> TRUE, cache |-> c] :
                     c \in cache_insert_all({proven_hash_cache},
                               SubSeq(ChainNames(chain), 1,
                                      FirstIndex(chain, curr_record_name, 1)), 1)}
             ELSE IF prev_record_name \in BackPtrs(chain[i])
             THEN VerifyChain(chain, proven_hash_cache, i + 1)
             ELSE {[ok |-> FALSE, cache |-> proven_hash_cache]}

\* after the signature, for one cache the insert of the signed name left behind
VerifyAfterSignature(record_name_to_prove, chain, proven_hash_cache) ==
    IF chain = <<>> \/ hash_record_header(chain[1]) # record_name_to_prove
    THEN {[ok |-> FALSE, cache |-> proven_hash_cache]}
    ELSE VerifyChain(chain, proven_hash_cache, 2)

\* verify_proof: the verdicts and caches it can leave behind
dag_verify_proof(record_name_to_prove, proof, writer_public_key, proven_hash_cache) ==
    LET signature == proof.signature
        chain == proof.chain
    IN  IF IsSome(signature)
        THEN IF ~verify_signature(Unwrap(signature).sig, Unwrap(signature).record_name,
                                  writer_public_key)
             THEN {[ok |-> FALSE, cache |-> proven_hash_cache]}
             ELSE LET caches == cache_insert(proven_hash_cache,
                                             Unwrap(signature).record_name)
                  IN  IF Unwrap(signature).record_name = record_name_to_prove
                      THEN {[ok |-> TRUE, cache |-> c] : c \in caches}
                      ELSE UNION {VerifyAfterSignature(record_name_to_prove, chain, c) :
                                     c \in caches}
        ELSE VerifyAfterSignature(record_name_to_prove, chain, proven_hash_cache)

-----------------------------------------------------------------------------
(* MERKLE-MODE, one session of an honest server and its client.  The       *)
(* server handles each request as it arrives and queues the response; the  *)
(* client processes the responses in order.                                *)

MStorage == [ds |-> m_ds, rs |-> m_rs, ns |-> m_ns, os |-> m_os]

MSetStorage(st) ==
    /\ m_ds' = st.ds
    /\ m_rs' = st.rs
    /\ m_ns' = st.ns
    /\ m_os' = st.os

MSend(sync, resp, ghost) ==
    m_net' = Append(m_net, [sync |-> sync, resp |-> resp, ghost |-> ghost])

NoGhost == [committed |-> FALSE, avoided |-> FALSE]

\* the commit roots stored so far
StoredRoots == {n \in DOMAIN m_ns : IsSome(m_ns[n].root_info)}

\* the DAG-MODE tables of the capsule after Create, no session
DStorageIdle ==
    /\ d_hs = hs_new
    /\ d_bs = EmptyMap
    /\ d_ws = EmptyMap

DSessionIdle ==
    /\ d_ctx = None
    /\ d_client = {}
    /\ d_tasks = <<>>
    /\ d_last = [kind |-> "none"]
    /\ d_solo = 0
    /\ d_signs = 0
    /\ d_proofs = 0
    /\ d_first = None

DVIdle ==
    /\ dv_cache = {}
    /\ dv_legit = {}
    /\ dv_last = [kind |-> "none"]

DagIdle == DStorageIdle /\ DSessionIdle /\ DVIdle

\* the client of the adversarial-server specification, not started
\* no library function is being called on its own
FnIdle ==
    /\ f_call = None
    /\ f_ret = None

MVIdle ==
    /\ v_read_state = ReadState_new
    /\ v_legit = {}
    /\ v_last = [kind |-> "none"]

MStorageIdle ==
    /\ m_ds = EmptyMap
    /\ m_rs = EmptyMap
    /\ m_ns = EmptyMap
    /\ m_os = EmptyMap

\* the budget of a MERKLE-MODE run of the model
MBudget == [ndata |-> NData, uncommitted |-> MaxUncommitted, commits |-> MaxCommits]

MSessionIdle ==
    /\ m_ctx = None
    /\ m_client = ReadState_new
    /\ m_net = <<>>
    /\ m_committed = {}
    /\ m_ncommits = 0
    /\ m_last = [kind |-> "none"]

\* the concurrent sessions, none connected
Sessions == {1, 2}

\* no session is inside RecordHeaderStorage::store
StoreIdle == [s \in Sessions |-> [pc |-> "idle", header |-> None, heads |-> {}, roots |-> {}]]

\* the server process up, the capsule created, no peer heard of yet
HIdle ==
    /\ h_ms = Store(EmptyMap, dc_name, GoodMetadata)
    /\ h_peer = [p \in Sessions |->
                    [conn |-> "up", pipe |-> "none", chan |-> <<>>, ctx |-> None]]
    /\ h_up = TRUE
    /\ h_envs = 0
    /\ h_last = [kind |-> "none"]
    /\ h_store = StoreIdle

\* WriterConnection::new of the checkpointing client: the checkpoint it is given
KNew ==
    [last_commit_hash |-> dc_name, next_commit_start_number |-> 0,
     next_sequence_number |-> 0, uncommitted_hashes |-> <<>>]

\* no do_operations call made on the checkpointing client
KNoCall ==
    [calls |-> 0, ops |-> <<>>, send_err |-> FALSE, hashes1 |-> <<>>, hashes2 |-> <<>>,
     j |-> 0, recv |-> "done", res |-> "idle", before |-> <<0, dc_name>>]

\* no do_operations call made on the TCP connection, nothing buffered or in
\* transit, the server waiting for a request; the checkpointing client fresh
TIdle ==
    /\ t_ops = <<>>
    /\ t_send = [pc |-> "done", i |-> 0]
    /\ t_recv = [pc |-> "done", j |-> 0, resp |-> None]
    /\ t_ret = "idle"
    /\ t_wbuf = <<>>
    /\ t_c2s = <<>>
    /\ t_srv = [pc |-> "poll", resp |-> None]
    /\ t_sbuf = <<>>
    /\ t_s2c = <<>>
    /\ t_tags = <<>>
    /\ t_nsent = 0
    /\ t_nread = 0
    /\ t_last = [kind |-> "none"]
    /\ t_batches = 0
    /\ t_faults = 0
    /\ k_conn = KNew
    /\ k_last = KNoCall

OIdle ==
    /\ o_sess = [s \in Sessions |-> [ctx |-> None, pc |-> "idle", job |-> None]]
    /\ o_obs = [kind |-> "none"]
    /\ o_log = {}
    /\ o_chain = [ok |-> TRUE, writer |-> 0, head |-> dc_name]
    /\ o_ncommits = 0

InitMerkle ==
    /\ FANOUT \in 2..MaxFanout
    /\ CACHE_SIZE \in 1..MaxCacheSize
    /\ SIG_AVOID \in 0..MaxSigAvoid
    /\ MVIdle
    /\ HIdle
    /\ TIdle
    /\ MStorageIdle
    /\ MSessionIdle
    /\ m_budget = MBudget
    /\ FnIdle
    /\ OIdle
    /\ DagIdle

\* request_to_response, (Request::Init(dc_name), ctx): the metadata of the
\* capsule dc_name is stored, that of the capsule with description 2 is not
MReqInit ==
    /\ Len(m_net) < MaxInFlight
    /\ \E name \in {dc_name, hash_dc_metadata(CreatorKey, WriterKey, 2)} :
           LET r == handle_init(name, {dc_name}, m_ctx)
           IN  /\ m_ctx' = r.ctx
               /\ MSend([type |-> "Init", dc |-> name], r.resp, NoGhost)
    /\ UNCHANGED <<cfgVars, fnVars, hVars, tVars, dagVars, mvVars, orVars, mstVars, m_client, m_committed, m_ncommits, m_last>>

\* request_to_response, a request that needs a capsule before any Init
MReqNoContext ==
    /\ Len(m_net) < MaxInFlight
    /\ m_ctx = None
    /\ \E sync \in {[type |-> "Write"], [type |-> "Proof", hash |-> hash_data(1)]} :
           MSend(sync, [type |-> "Failed"], NoGhost)
    /\ UNCHANGED <<cfgVars, fnVars, hVars, tVars, dagVars, mvVars, orVars, mstVars, m_ctx, m_client, m_committed, m_ncommits, m_last>>

\* request_to_response, (Request::Write(data), Some(ctx))
MReqWrite ==
    /\ Len(m_net) < MaxInFlight
    /\ IsSome(m_ctx)
    /\ Len(Unwrap(m_ctx).uncommitted_hashes) < m_budget.uncommitted
    /\ \E data \in 1..m_budget.ndata :
           LET r == handle_write(data, Unwrap(m_ctx), MStorage)
           IN  /\ m_ctx' = Some(r.ctx)
               /\ MSetStorage(r.st)
               /\ MSend([type |-> "Write"], r.resp, NoGhost)
    /\ UNCHANGED <<cfgVars, fnVars, hVars, tVars, dagVars, mvVars, orVars, m_client, m_committed, m_ncommits, m_last>>

\* request_to_response, (Request::Commit(additional_hash, sig), Some(ctx)); the
\* client signs the root it computes from its own record list (commit_request)
MReqCommit ==
    /\ Len(m_net) < MaxInFlight
    /\ IsSome(m_ctx)
    /\ m_ncommits < m_budget.commits
    /\ \E additional_hash \in {dc_name} \cup StoredRoots, key \in {WriterKey, OtherKey},
          other_root \in BOOLEAN :
           LET ctx == Unwrap(m_ctx)
               root_hash == merkle_tree_root(ctx.uncommitted_hashes, additional_hash)
               \* the signature sent: over the root, or over the root of the same
               \* records on top of another additional hash
               client_signature ==
                   sign(IF other_root
                        THEN merkle_tree_root(ctx.uncommitted_hashes, NULL_HASH)
                        ELSE root_hash, key)
               r == handle_commit(ctx, MStorage, additional_hash, client_signature)
           IN  /\ m_ctx' = Some(r.ctx)
               /\ MSetStorage(r.st)
               /\ MSend([type |-> "Commit", hash |-> root_hash], r.resp,
                         [committed |-> FALSE, avoided |-> FALSE,
                          signature |-> client_signature, root |-> root_hash])
               /\ m_committed' = IF r.ok
                                  THEN m_committed \cup
                                       {ctx.uncommitted_hashes[i] :
                                           i \in 1..Len(ctx.uncommitted_hashes)}
                                  ELSE m_committed
    /\ m_ncommits' = m_ncommits + 1
    /\ UNCHANGED <<cfgVars, fnVars, hVars, tVars, dagVars, mvVars, orVars, m_client, m_last>>

\* the client has just accepted a Proof of record 1 that carried the root
\* signature and the single node of a commit of the records 1, 2, 3 on top of
\* the capsule name, and the server has handled nothing since
AfterProofOfRecord1 ==
    /\ FANOUT = 4
    /\ m_net = <<>> /\ m_last.kind = "recv"
    /\ m_last.sync = [type |-> "Proof", hash |-> hash_data(1)]
    /\ m_last.out.kind = "Proof" /\ m_last.out.ok
    /\ IsSome(m_last.resp.root) /\ Len(m_last.resp.nodes) = 1
    /\ LET n == m_last.resp.nodes[1]
       IN  /\ Unwrap(m_last.resp.root) =
                  [sig |-> sign(hash_node(n), WriterKey), hash |-> hash_node(n)]
           /\ {n[i] : i \in 1..FANOUT} =
                  {hash_data(1), hash_data(2), hash_data(3), dc_name}

\* request_to_response, (Request::Proof(hash), Some(ctx))
MReqProof ==
    /\ Len(m_net) < MaxInFlight
    /\ IsSome(m_ctx)
    /\ \E hash \in {hash_data(d) : d \in 1..m_budget.ndata} \cup {dc_name} :
           LET r == build_proof(hash, Unwrap(m_ctx), MStorage)
           IN  /\ m_ctx' = Some(r.ctx)
               /\ MSend([type |-> "Proof", hash |-> hash], r.resp,
                         [committed |-> hash \in m_committed,
                          after_proof1 |-> AfterProofOfRecord1,
                          avoided |-> (r.resp.type = "Proof" /\ r.resp.root = None
                                       /\ Len(r.resp.nodes) >= 2
                                       /\ IsSome(m_ns[hash_node(r.resp.nodes[2])].root_info))])
    /\ UNCHANGED <<cfgVars, fnVars, hVars, tVars, dagVars, mvVars, orVars, mstVars, m_client, m_committed, m_ncommits, m_last>>

\* wait_for_responses: the client takes the next response and its sync tag
MClientRecv ==
    /\ m_net # <<>>
    /\ LET m == Head(m_net)
           r == response_to_client_response(m.resp, m.sync, m_client)
       IN  /\ m_client' = r.rs
           /\ m_last' = [out |-> r.out, sync |-> m.sync, resp |-> m.resp,
                         ghost |-> m.ghost, kind |-> "recv"]
    /\ m_net' = Tail(m_net)
    /\ UNCHANGED <<cfgVars, fnVars, hVars, tVars, dagVars, mvVars, orVars, mstVars, m_ctx, m_committed, m_ncommits>>

NextMerkle ==
    \/ MReqInit
    \/ MReqNoContext
    \/ MReqWrite
    \/ MReqCommit
    \/ MReqProof
    \/ MClientRecv

SpecMerkle == InitMerkle /\ [][NextMerkle]_vars

\* the client's ReadState once it has processed the responses in flight
RECURSIVE ClientAfter(_, _)
ClientAfter(net, read_state) ==
    IF net = <<>> THEN read_state
    ELSE ClientAfter(Tail(net),
                     response_to_client_response(Head(net).resp, Head(net).sync,
                                                 read_state).rs)

\* C3: MERKLE-MODE cache mirror. From a successful Init on, with an honest
\* server and in-order delivery, the session's ReadState on the server equals
\* the client's ReadState once the client has processed the responses sent
\* so far, for every SIG_AVOID and CACHE_SIZE of the model.
C3_CacheMirror ==
    IsSome(m_ctx) => ClientAfter(m_net, m_client) = Unwrap(m_ctx).read_state

\* C3 witness: a proof built with signature avoidance was accepted and the two
\* caches, which hold a demoted hash in some slot, are equal.
C3_Witness ==
    /\ m_last.kind = "recv" /\ m_last.out.kind = "Proof" /\ m_last.out.ok
    /\ m_last.ghost.avoided
    /\ m_net = <<>> /\ IsSome(m_ctx) /\ m_client = Unwrap(m_ctx).read_state
    /\ \E i \in 0..(CACHE_SIZE - 1) : m_client.hash_cache[i] # NULL_HASH

\* C4: MERKLE-MODE completeness. Every Proof of a record hash that was
\* written and included in a successful commit is answered with a proof that
\* the client accepts, with and without signature avoidance.
C4_Completeness ==
    (m_last.kind = "recv" /\ m_last.sync.type = "Proof" /\ m_last.ghost.committed)
        => (m_last.out.kind = "Proof" /\ m_last.out.ok)

\* C4 witness: an accepted proof of a committed record whose root signature
\* was dropped by signature avoidance.
C4_Witness ==
    /\ m_last.kind = "recv" /\ m_last.sync.type = "Proof" /\ m_last.ghost.committed
    /\ m_last.out.kind = "Proof" /\ m_last.out.ok
    /\ m_last.ghost.avoided /\ SIG_AVOID > 0

\* The scenario of a commit of three records with FANOUT = 4: the same session
\* and client, with three data blocks, three buffered writes and one commit.
InitProofCache ==
    /\ FANOUT = 4
    /\ CACHE_SIZE \in 1..MaxCacheSize
    /\ SIG_AVOID = 0
    /\ m_budget = [ndata |-> 3, uncommitted |-> 3, commits |-> 1]
    /\ FnIdle
    /\ MVIdle
    /\ HIdle
    /\ TIdle
    /\ MStorageIdle
    /\ MSessionIdle
    /\ OIdle
    /\ DagIdle

SpecProofCache == InitProofCache /\ [][NextMerkle]_vars

\* a session that commits three times: a commit, a commit on top of it, and
\* one more, which may branch or repeat an earlier commit
InitReplay ==
    /\ FANOUT = 2
    /\ CACHE_SIZE = 1
    /\ SIG_AVOID = 0
    /\ m_budget = [ndata |-> 1, uncommitted |-> 1, commits |-> MaxCommits + 1]
    /\ FnIdle
    /\ MVIdle
    /\ HIdle
    /\ TIdle
    /\ MStorageIdle
    /\ MSessionIdle
    /\ OIdle
    /\ DagIdle

SpecReplay == InitReplay /\ [][NextMerkle]_vars

\* C21: once the node of a commit root has its parent pointer set, no later
\* step of the server changes or clears that pointer.
C21_ParentPointerStable ==
    [][\A a \in DOMAIN m_ns :
           (IsSome(m_ns[a].root_info) /\ IsSome(m_ns[a].parent))
               => (a \in DOMAIN m_ns' /\ m_ns'[a].parent = m_ns[a].parent)]_vars

\* C38: after any Commit request, answered Commit or Failed, the session's
\* uncommitted hash list is empty, so the records written before a rejected
\* Commit are in no later commit of the session unless written again.
C38_CommitClearsUncommitted ==
    [][(m_ncommits' = m_ncommits + 1) => Unwrap(m_ctx').uncommitted_hashes = <<>>]_vars

\* a Commit over a written record was answered Failed, and the record, whose
\* data is stored, is in no commit and no longer in the session's list
C38_Witness ==
    /\ m_net # <<>> /\ Head(m_net).sync.type = "Commit"
    /\ Head(m_net).resp.type = "Failed"
    /\ Head(m_net).ghost.root \notin
           {merkle_tree_root(<<>>, a) : a \in {dc_name} \cup StoredRoots}
    /\ hash_data(1) \in DOMAIN m_ds
    /\ hash_data(1) \notin DOMAIN m_rs
    /\ Unwrap(m_ctx).uncommitted_hashes = <<>>

\* the hashes of a list without the repetitions of earlier ones
RECURSIVE Distinct(_)
Distinct(hashes) ==
    IF hashes = <<>> THEN <<>>
    ELSE LET front == Distinct(SubSeq(hashes, 1, Len(hashes) - 1))
             last  == hashes[Len(hashes)]
         IN  IF \E i \in 1..Len(front) : front[i] = last THEN front
             ELSE Append(front, last)

\* C37: a Write sent twice before a Commit counts once: the root of a
\* successful commit is the root over the distinct records the session wrote
\* since its last Commit, on top of the additional hash.
C37_ReplayedWriteSameRoot ==
    [][(m_ncommits' = m_ncommits + 1 /\ m_net'[Len(m_net')].resp.type = "Commit") =>
          \E a \in {dc_name} \cup StoredRoots :
              m_net'[Len(m_net')].resp.sig.msg =
                  merkle_tree_root(Distinct(Unwrap(m_ctx).uncommitted_hashes), a)]_vars

\* C20 as stated: in that scenario Proof of record 2, right after the accepted
\* Proof of record 1, returns root = None and nodes = [N0], and the client
\* accepts it.
C20_SecondProofResendsNode ==
    (/\ m_last.kind = "recv"
     /\ m_last.sync = [type |-> "Proof", hash |-> hash_data(2)]
     /\ m_last.ghost.after_proof1)
        => /\ m_last.resp.type = "Proof" /\ m_last.resp.root = None
           /\ Len(m_last.resp.nodes) = 1
           /\ {m_last.resp.nodes[1][i] : i \in 1..FANOUT} =
                  {hash_data(1), hash_data(2), hash_data(3), dc_name}
           /\ m_last.out.kind = "Proof" /\ m_last.out.ok

\* C20: in that scenario Proof of record 2, right after the accepted Proof of
\* record 1, returns root = None and no node at all (record 2 is a child of
\* the node the client proved last), and the client accepts it.
C20_SecondProofEmpty ==
    (/\ m_last.kind = "recv"
     /\ m_last.sync = [type |-> "Proof", hash |-> hash_data(2)]
     /\ m_last.ghost.after_proof1)
        => /\ m_last.resp = [type |-> "Proof", root |-> None, nodes |-> <<>>]
           /\ m_last.out.kind = "Proof" /\ m_last.out.ok

\* C20 witness: the client has accepted the empty Proof of record 2 that the
\* server built right after the Proof of record 1.
C20_Witness ==
    /\ m_last.kind = "recv"
    /\ m_last.sync = [type |-> "Proof", hash |-> hash_data(2)]
    /\ m_last.ghost.after_proof1
    /\ m_last.resp = [type |-> "Proof", root |-> None, nodes |-> <<>>]
    /\ m_last.out.kind = "Proof" /\ m_last.out.ok

\* C14: an Init naming a capsule whose metadata is not stored replies Failed and
\* leaves the session context as it was (unbound stays unbound, bound stays
\* bound with the same uncommitted list and proof cache) and every table as it
\* was; a request that needs a capsule, made in an unbound session, replies
\* Failed and changes no table.
C14_UnknownInitFrame ==
    [][(Len(m_net') > Len(m_net)) =>
          LET m == m_net'[Len(m_net')]
          IN  /\ (m.sync.type = "Init" /\ m.sync.dc # dc_name) =>
                     (m.resp.type = "Failed" /\ m_ctx' = m_ctx /\ UNCHANGED mstVars)
              /\ (m.sync.type # "Init" /\ m_ctx = None) =>
                     (m.resp.type = "Failed" /\ m_ctx' = None /\ UNCHANGED mstVars)]_vars

\* C14 witness: a session with uncommitted writes and a filled proof cache got
\* Failed for an Init of the unknown capsule.
C14_Witness ==
    /\ m_net # <<>> /\ Head(m_net).sync.type = "Init" /\ Head(m_net).sync.dc # dc_name
    /\ Head(m_net).resp.type = "Failed"
    /\ IsSome(m_ctx) /\ Unwrap(m_ctx).uncommitted_hashes # <<>>
    /\ Unwrap(m_ctx).read_state # ReadState_new

\* C11: a Commit whose signature does not verify under the writer key over the
\* root of the session's uncommitted hashes and the additional hash replies
\* Failed and leaves the RecordParent, TreeNode and Orphan tables as they were.
C11_BadCommitRejected ==
    [][(m_ncommits' = m_ncommits + 1) =>
          LET m == m_net'[Len(m_net')]
          IN  (m.ghost.signature # sign(m.ghost.root, WriterKey)) =>
                  /\ m.resp.type = "Failed"
                  /\ m_rs' = m_rs /\ m_ns' = m_ns /\ m_os' = m_os]_vars

\* C11 witness: after an earlier commit filled the tables, a Commit signed by
\* the writer over another root was answered Failed.
C11_Witness ==
    /\ m_last.kind = "recv" /\ m_last.sync.type = "Commit"
    /\ m_last.out.kind = "ServerFail"
    /\ m_last.ghost.signature.by = WriterKey
    /\ m_last.ghost.signature.msg # m_last.ghost.root
    /\ m_ns # EmptyMap /\ m_os # EmptyMap

-----------------------------------------------------------------------------
(* MERKLE-MODE, two sessions of one capsule on the shared tables.  Each    *)
(* session runs its handlers on its own thread, so the storage operations  *)
(* of a handle_commit of one session interleave with the requests of the   *)
(* other.  handle_commit is taken in four steps: the signature check and   *)
(* the record and node stores; OrphanStorage::replace's insert; its        *)
(* remove; the stitch of the additional hash with the reply.               *)

OSet(s, ctx, pc, job) ==
    o_sess' = [o_sess EXCEPT ![s] = [ctx |-> ctx, pc |-> pc, job |-> job]]

OFrame == UNCHANGED <<cfgVars, fnVars, hVars, tVars, dagVars, mvVars, msVars>>

\* request_to_response, (Request::Init(dc_name), ctx)
OReqInit(s) ==
    /\ o_sess[s].pc = "idle"
    /\ o_sess[s].ctx = None
    /\ OSet(s, Some(DCContext_new), "idle", None)
    /\ UNCHANGED <<mstVars, o_obs, o_log, o_chain, o_ncommits>>
    /\ OFrame

\* request_to_response, (Request::Write(data), Some(ctx))
OReqWrite(s) ==
    /\ o_sess[s].pc = "idle"
    /\ IsSome(o_sess[s].ctx)
    /\ Len(Unwrap(o_sess[s].ctx).uncommitted_hashes) < MaxUncommitted
    /\ \E data \in 1..NData :
           LET r == handle_write(data, Unwrap(o_sess[s].ctx), MStorage)
           IN  /\ OSet(s, Some(r.ctx), "idle", None)
               /\ MSetStorage(r.st)
    /\ UNCHANGED <<o_obs, o_log, o_chain, o_ncommits>>
    /\ OFrame

\* handle_commit up to the store of the signed root node
OCommitBegin(s) ==
    /\ o_sess[s].pc = "idle"
    /\ IsSome(o_sess[s].ctx)
    /\ o_ncommits < MaxOrphanCommits
    /\ \E additional_hash \in {dc_name} \cup StoredRoots, key \in {WriterKey, OtherKey} :
           LET ctx  == Unwrap(o_sess[s].ctx)
               mts  == merkle_tree_storage(ctx.uncommitted_hashes, additional_hash)
               client_signature == sign(mts.root, key)
               ctx1 == [ctx EXCEPT !.uncommitted_hashes = <<>>]
           IN  IF ~verify_signature(client_signature, mts.root, WriterKey)
               THEN /\ OSet(s, Some(ctx1), "idle", None)
                    /\ UNCHANGED <<mstVars, o_chain>>
               ELSE /\ OSet(s, Some(ctx1), "insert",
                            Some([additional_hash |-> additional_hash,
                                  root |-> mts.root,
                                  client_signature |-> client_signature,
                                  additional_hash_parent |-> mts.additional_hash_parent]))
                    /\ m_rs' = StoreRecords(m_rs, mts.records, 1)
                    /\ m_ns' = StoreRoot(StoreNodes(m_ns, mts.treeblocks, 1), mts,
                                         client_signature)
                    /\ UNCHANGED <<m_ds, m_os>>
                    /\ o_chain' = [ok |-> /\ o_chain.ok
                                          /\ o_chain.writer \in {0, s}
                                          /\ additional_hash = o_chain.head,
                                   writer |-> s,
                                   head |-> mts.root]
    /\ o_ncommits' = o_ncommits + 1
    /\ UNCHANGED <<o_obs, o_log>>
    /\ OFrame

\* OrphanStorage::replace, self.0.insert(commit_name, signature)
OCommitInsert(s) ==
    /\ o_sess[s].pc = "insert"
    /\ LET job == Unwrap(o_sess[s].job)
       IN  m_os' = OrphanInsert(m_os, job.root, job.client_signature)
    /\ OSet(s, o_sess[s].ctx, "remove", o_sess[s].job)
    /\ UNCHANGED <<m_ds, m_rs, m_ns, o_obs, o_log, o_chain, o_ncommits>>
    /\ OFrame

\* OrphanStorage::replace, self.0.remove(old_commit_name)
OCommitRemove(s) ==
    /\ o_sess[s].pc = "remove"
    /\ LET job == Unwrap(o_sess[s].job)
       IN  m_os' = OrphanRemove(m_os, job.additional_hash)
    /\ OSet(s, o_sess[s].ctx, "stitch", o_sess[s].job)
    /\ UNCHANGED <<m_ds, m_rs, m_ns, o_obs, o_log, o_chain, o_ncommits>>
    /\ OFrame

\* handle_commit, the parent of the additional hash and Response::Commit
OCommitReply(s) ==
    /\ o_sess[s].pc = "stitch"
    /\ LET job == Unwrap(o_sess[s].job)
       IN  /\ m_ns' = StitchParent(m_ns, job.additional_hash, job.additional_hash_parent)
           /\ o_log' = o_log \cup {[session |-> s, additional_hash |-> job.additional_hash,
                                    root |-> job.root]}
    /\ OSet(s, o_sess[s].ctx, "idle", None)
    /\ UNCHANGED <<m_ds, m_rs, m_os, o_obs, o_chain, o_ncommits>>
    /\ OFrame

\* request_to_response, (Request::FreshestCommits, Some(ctx)): handle_freshness
OReqFreshness(s) ==
    /\ o_sess[s].pc = "idle"
    /\ IsSome(o_sess[s].ctx)
    /\ o_obs' = [kind |-> "FreshestCommits", session |-> s,
                 orphans |-> all_orphans(m_os),
                 nonbranching |-> (o_chain.ok /\ o_chain.writer # s),
                 committed |-> (o_log # {})]
    /\ UNCHANGED <<mstVars, o_sess, o_log, o_chain, o_ncommits>>
    /\ OFrame

InitOrphan ==
    /\ FANOUT \in 2..MaxFanout
    /\ CACHE_SIZE = 1
    /\ SIG_AVOID = 0
    /\ MVIdle
    /\ HIdle
    /\ TIdle
    /\ MStorageIdle
    /\ MSessionIdle
    /\ m_budget = MBudget
    /\ FnIdle
    /\ OIdle
    /\ DagIdle

NextOrphan ==
    \E s \in Sessions :
        \/ OReqInit(s)
        \/ OReqWrite(s)
        \/ OCommitBegin(s)
        \/ OCommitInsert(s)
        \/ OCommitRemove(s)
        \/ OCommitReply(s)
        \/ OReqFreshness(s)

SpecOrphan == InitOrphan /\ [][NextOrphan]_vars

\* Commit requests of the single session of SpecOrphanSeq
MaxSeqCommits == 3

\* one session alone on the server: the other one never connects, and the
\* commit counter leaves room for MaxSeqCommits commits of the one session
InitOrphanSeq ==
    /\ FANOUT = 2
    /\ CACHE_SIZE = 1
    /\ SIG_AVOID = 0
    /\ MVIdle
    /\ HIdle
    /\ TIdle
    /\ MStorageIdle
    /\ MSessionIdle
    /\ m_budget = MBudget
    /\ FnIdle
    /\ o_sess = [s \in Sessions |-> [ctx |-> None,
                                     pc |-> IF s = 1 THEN "idle" ELSE "closed",
                                     job |-> None]]
    /\ o_obs = [kind |-> "none"]
    /\ o_log = {}
    /\ o_chain = [ok |-> TRUE, writer |-> 0, head |-> dc_name]
    /\ o_ncommits = MaxOrphanCommits - MaxSeqCommits
    /\ DagIdle

SpecOrphanSeq == InitOrphanSeq /\ [][NextOrphan]_vars

\* no handle_commit is between its first store and its reply
NoCommitInProgress == \A s \in Sessions : o_sess[s].pc \in {"idle", "closed"}

\* C36: whenever no commit is in progress, a root is in the Orphan table
\* exactly if a commit with that root has succeeded and no successful commit
\* has used that root as its additional hash, whatever the order of the
\* commits, replays of earlier commits included.
C36_OrphansAreUnsupersededRoots ==
    NoCommitInProgress =>
        all_orphans(m_os) = {c.root : c \in o_log} \ {c.additional_hash : c \in o_log}

\* C9: with a single non-branching writer, every Orphan table that a
\* FreshestCommits request of another session observes after the first
\* successful commit holds exactly one root.
C9_OneHeadObserved ==
    (o_obs.kind = "FreshestCommits" /\ o_obs.nonbranching /\ o_obs.committed)
        => Cardinality(o_obs.orphans) = 1

\* the additional hashes of the commits taken so far or in progress
OUsedAdditional ==
    {c.additional_hash : c \in o_log}
    \cup {Unwrap(o_sess[s].job).additional_hash : s \in {t \in Sessions : IsSome(o_sess[t].job)}}

\* C10: branch preservation. Two commits with distinct roots on the same
\* additional hash that have both replied Response::Commit, in one session or
\* in two, both have their root in the Orphan table (as long as no commit has
\* been made on top of either root).
C10_BranchPreservation ==
    \A c1 \in o_log, c2 \in o_log :
        (/\ c1.additional_hash = c2.additional_hash
         /\ c1.root # c2.root
         /\ {c1.root, c2.root} \cap OUsedAdditional = {})
            => {c1.root, c2.root} \subseteq all_orphans(m_os)

\* C10 witness: two sessions have each replied to a commit on the same
\* additional hash, with distinct roots, and both roots are orphans.
C10_Witness ==
    \E c1 \in o_log, c2 \in o_log :
        /\ c1.session # c2.session
        /\ c1.additional_hash = c2.additional_hash
        /\ c1.root # c2.root
        /\ {c1.root, c2.root} \subseteq all_orphans(m_os)

-----------------------------------------------------------------------------
(* MERKLE-MODE client against an arbitrary (possibly malicious) server.    *)
(* The writer has signed the roots of two commits; the server may present  *)
(* those signatures, signatures of another key, and any node it likes.     *)

WriterSignedRoots ==
    {merkle_tree_root(<<hash_data(1)>>, dc_name),
     merkle_tree_root(<<hash_data(1), hash_data(1)>>, dc_name)}

\* the nodes of the signed trees, and nodes over the same leaves that are in no tree
AdvNodes ==
    {Group(l, 1) : l \in {<<>>, <<dc_name, hash_data(1)>>, <<hash_data(1)>>,
                          <<hash_data(1), hash_data(1)>>}}
    \cup {Group(NextLayer(<<dc_name, hash_data(1), hash_data(1)>>), 1)}

AdvTargets == {NULL_HASH, hash_data(1), merkle_tree_root(<<hash_data(1)>>, dc_name)}

\* root fields a server can produce: a signature is valid only if the writer made it
AdvRoots ==
    {None}
    \cup {Some([sig |-> sign(r, WriterKey), hash |-> r]) : r \in WriterSignedRoots}
    \cup {Some([sig |-> sign(hash_data(1), OtherKey), hash |-> hash_data(1)])}
    \cup {Some([sig |-> sign(r, WriterKey), hash |-> hash_data(1)]) : r \in WriterSignedRoots}

RECURSIVE LegitNodes(_, _, _)
LegitNodes(legit, nodes, i) ==
    IF i > Len(nodes) \/ hash_node(nodes[i]) \notin legit THEN legit
    ELSE LegitNodes(legit \cup {nodes[i][j] : j \in 1..FANOUT}, nodes, i + 1)

\* the hashes that descend from a root validly signed by the writer, after a response
LegitAfter(legit, root, nodes) ==
    IF IsSome(root) /\ ~(Unwrap(root).sig = sign(Unwrap(root).hash, WriterKey)) THEN legit
    ELSE LegitNodes(IF IsSome(root) THEN legit \cup {Unwrap(root).hash} ELSE legit, nodes, 1)

InitMV ==
    /\ FANOUT \in 2..MaxFanout
    /\ CACHE_SIZE \in 1..MaxCacheSize
    /\ SIG_AVOID = 0
    /\ MVIdle
    /\ HIdle
    /\ TIdle
    /\ MStorageIdle
    /\ MSessionIdle
    /\ m_budget = MBudget
    /\ FnIdle
    /\ OIdle
    /\ DagIdle

\* response_to_client_response, (Response::Init, ClientSync::Init)
MVClientInit ==
    /\ v_read_state' = ReadState_new
    /\ v_legit' = {}
    /\ v_last' = [kind |-> "init"]
    /\ UNCHANGED <<cfgVars, fnVars, hVars, tVars, dagVars, mstVars, msVars, orVars>>

\* response_to_client_response, (Response::Proof, ClientSync::Proof(hash))
MVClientProof ==
    \E target \in AdvTargets, root \in AdvRoots, nodes \in SeqsUpTo(AdvNodes, MaxAdvNodes) :
        LET r == verify_proof(target, root, nodes, WriterKey, v_read_state)
        IN  /\ v_read_state' = r.rs
            /\ v_legit' = LegitAfter(v_legit, root, nodes)
            /\ v_last' = [kind |-> "proof", target |-> target, ok |-> r.ok,
                          fresh |-> (v_read_state = ReadState_new /\ root = None /\ nodes = <<>>)]
            /\ UNCHANGED <<cfgVars, fnVars, hVars, tVars, dagVars, mstVars, msVars, orVars>>

NextMV == MVClientInit \/ MVClientProof

SpecMV == InitMV /\ [][NextMV]_vars

\* C1: MERKLE-MODE soundness. Whatever Proof responses a server sends in a
\* session, verify_proof accepts a target only if the target descends from a
\* root whose writer signature was received and verified in this session; in
\* particular a fresh client accepts nothing from an empty response.
C1_MerkleSoundness ==
    (v_last.kind = "proof" /\ v_last.ok) => v_last.target \in v_legit

\* C12 (MERKLE-MODE client): when verify_proof rejects a Proof response (bad
\* signature or bad proof), the client's ReadState is exactly what it was
\* before the response was processed.
C12_RejectKeepsCache ==
    [][(v_last'.kind = "proof" /\ ~v_last'.ok) => v_read_state' = v_read_state]_vars

-----------------------------------------------------------------------------
(* DAG-MODE, an honest server.  The handlers of the sessions touch only the *)
(* shared tables, except Proof, which uses the session's cache; so the     *)
(* requests are those of one session and its client, and every             *)
(* propagation task runs concurrently with them, one storage access at a   *)
(* time.  A response is processed by the client as soon as it is sent.     *)

\* the records the writer produces: a genesis record that points to the capsule
\* name, its successor, and a record that points to the successor and, first, to a
\* record written later or never
DagGenesis == RecordHeader(hash_data(1), <<dc_name>>)
DagLate    == RecordHeader(hash_data(2), <<>>)
DagSecond  == RecordHeader(hash_data(1), <<hash_record_header(DagGenesis)>>)
DagHole    == RecordHeader(hash_data(2), <<hash_record_header(DagLate),
                                           hash_record_header(DagSecond)>>)
DagHeaders == {DagGenesis, DagLate, DagSecond, DagHole}
DagNames   == {hash_record_header(h) : h \in DagHeaders}

DFrame == UNCHANGED <<cfgVars, fnVars, hVars, tVars, merkleVars, dvVars>>

\* request_to_response, (Request::Init(dc_name), ctx); the client resets its cache
DReqInit ==
    /\ d_ctx = None
    /\ d_ctx' = Some([client_proven_hash_cache |-> {}])
    /\ d_client' = {}
    /\ d_last' = [kind |-> "Init"]
    /\ d_solo' = 0
    /\ UNCHANGED <<dstVars, d_tasks, d_signs, d_proofs, d_first>>
    /\ DFrame

\* request_to_response, a request that needs a capsule before any Init
DReqNoContext ==
    /\ d_ctx = None
    /\ d_last' = [kind |-> "Failed"]
    /\ d_solo' = 0
    /\ UNCHANGED <<dstVars, d_ctx, d_client, d_tasks, d_signs, d_proofs, d_first>>
    /\ DFrame

\* request_to_response, (Request::RW(RWRequest::Write(record)), Some(ctx))
DReqWrite ==
    /\ IsSome(d_ctx)
    /\ \E header \in DagHeaders, body \in 1..NData :
           LET r == dag_handle_write([body |-> body, header |-> header], d_bs, d_hs)
           IN  /\ d_hs' = r.hs
               /\ d_bs' = r.bs
               /\ d_last' = [kind |-> "Write", resp |-> r.resp.type,
                             record_name |-> r.resp.record_name,
                             body_ptr |-> header.body_ptr, body |-> body,
                             stored_before |->
                                 (/\ Get(d_hs.headers, r.resp.record_name) = Some(header)
                                  /\ Get(d_bs, header.body_ptr) = Some(body))]
               /\ d_first' = IF d_first = None
                             THEN Some([body |-> body, header |-> header])
                             ELSE d_first
    /\ d_solo' = 0
    /\ UNCHANGED <<d_ws, d_ctx, d_client, d_tasks, d_signs, d_proofs>>
    /\ DFrame

\* request_to_response, (Request::RW(RWRequest::Read(hash)), Some(ctx)): handle_read
DReqRead ==
    /\ IsSome(d_ctx)
    /\ \E record_name \in DagNames :
           LET r == read_record(record_name, d_bs, d_hs)
           IN  d_last' = [kind |-> "Read", record_name |-> record_name,
                          resp |-> IF r.ok
                                   THEN [type |-> "ReadRecord", record |-> r.record]
                                   ELSE [type |-> "Failed"]]
    /\ d_solo' = 0
    /\ UNCHANGED <<dstVars, d_ctx, d_client, d_tasks, d_signs, d_proofs, d_first>>
    /\ DFrame

\* request_to_response, (Request::RW(RWRequest::Sign(hash, signature)), Some(ctx))
DReqSign ==
    /\ IsSome(d_ctx)
    /\ d_signs > 0
    /\ d_signs' = d_signs - 1
    /\ \E record_name \in DagNames, key \in {WriterKey, OtherKey},
          over_name \in BOOLEAN :
           LET signature == sign(IF over_name THEN record_name ELSE dc_name, key)
               r == handle_sign(record_name, signature, d_ws)
           IN  /\ d_ws' = r.ws
               /\ d_tasks' = IF IsSome(r.spawned)
                             THEN Append(d_tasks, Unwrap(r.spawned)) ELSE d_tasks
               /\ d_last' = [kind |-> "Sign", resp |-> r.resp.type,
                             verifies |-> verify_signature(signature, record_name,
                                                           WriterKey)]
               /\ d_solo' = IF IsSome(r.spawned)
                               /\ \A t \in 1..Len(d_tasks) : TaskFinished(d_tasks[t])
                            THEN Len(d_tasks) + 1 ELSE 0
    /\ UNCHANGED <<d_hs, d_bs, d_ctx, d_client, d_proofs, d_first>>
    /\ DFrame

\* update_ancestor_witnesses of task t: its next storage access
DTaskStep ==
    \E t \in 1..Len(d_tasks) :
        /\ ~TaskFinished(d_tasks[t])
        /\ IF d_tasks[t].pc = "start"
           THEN /\ d_tasks' = [d_tasks EXCEPT ![t] = TaskStart(d_tasks[t], d_hs)]
                /\ UNCHANGED <<d_ws, d_last>>
           ELSE LET r == TaskWaveEntry(d_tasks[t], d_hs, d_ws)
                IN  /\ d_tasks' = [d_tasks EXCEPT ![t] = r.task]
                    /\ d_ws' = r.ws
                    /\ d_last' = IF IsSome(r.updated)
                                 THEN [kind |-> "UpdateWitness",
                                       record_name |-> Unwrap(r.updated).record_name,
                                       old |-> Unwrap(r.updated).old,
                                       proposed |-> Unwrap(r.updated).proposed]
                                 ELSE d_last
        /\ UNCHANGED <<d_hs, d_bs, d_ctx, d_client, d_solo, d_signs, d_proofs, d_first>>
        /\ DFrame

\* request_to_response, (Request::RW(RWRequest::Proof(hash)), Some(ctx)), and
\* response_to_client_response, (Response::ReadProof, ClientSync::Proof(hash))
DReqProof ==
    /\ IsSome(d_ctx)
    /\ d_proofs > 0
    /\ d_proofs' = d_proofs - 1
    /\ \E record_name \in DagNames :
       \E s \in best_effort_proof(record_name, d_hs, d_ws,
                                  Unwrap(d_ctx).client_proven_hash_cache) :
       \E c \in dag_verify_proof(record_name, s.proof, WriterKey, d_client) :
           /\ d_ctx' = Some([client_proven_hash_cache |-> s.cache])
           /\ d_client' = c.cache
           /\ d_last' = [kind |-> "Proof", record_name |-> record_name,
                         completed |-> s.completed, ok |-> c.ok,
                         again |-> (d_last.kind = "Proof" /\ d_last.ok
                                    /\ d_last.record_name = record_name)]
    /\ d_solo' = 0
    /\ UNCHANGED <<dstVars, d_tasks, d_signs, d_first>>
    /\ DFrame

\* the runs of Write and Sign requests and of the propagation tasks
InitDag ==
    /\ FANOUT = 2
    /\ CACHE_SIZE = 1
    /\ SIG_AVOID = 0
    /\ MVIdle
    /\ HIdle
    /\ TIdle
    /\ MStorageIdle
    /\ MSessionIdle
    /\ m_budget = MBudget
    /\ FnIdle
    /\ OIdle
    /\ DStorageIdle
    /\ DVIdle
    /\ d_ctx = None
    /\ d_client = {}
    /\ d_tasks = <<>>
    /\ d_last = [kind |-> "none"]
    /\ d_solo = 0
    /\ d_signs = MaxSigns
    /\ d_proofs = 0
    /\ d_first = Some(None)      \* these runs do not track the first record

NextDag ==
    \/ DReqInit
    \/ DReqNoContext
    \/ DReqWrite
    \/ DReqSign
    \/ DTaskStep

\* C24: a Sign whose signature does not verify under the writer key over the
\* record name replies Failed, changes no witness and starts no propagation.
C24_BadSignFrame ==
    [][(d_signs' < d_signs /\ ~d_last'.verifies)
       => (d_last'.resp = "Failed" /\ d_ws' = d_ws /\ d_tasks' = d_tasks)]_vars

\* a Sign was refused while a witness was stored and a propagation was running
C24_Witness ==
    /\ d_last.kind = "Sign" /\ ~d_last.verifies /\ d_last.resp = "Failed"
    /\ d_ws # EmptyMap
    /\ \E t \in 1..Len(d_tasks) : ~TaskFinished(d_tasks[t])

\* the runs that also ask for proofs
InitDagProof ==
    /\ FANOUT = 2
    /\ CACHE_SIZE \in 1..MaxCacheSize
    /\ SIG_AVOID = 0
    /\ MVIdle
    /\ HIdle
    /\ TIdle
    /\ MStorageIdle
    /\ MSessionIdle
    /\ m_budget = MBudget
    /\ FnIdle
    /\ OIdle
    /\ DStorageIdle
    /\ DVIdle
    /\ d_ctx = None
    /\ d_client = {}
    /\ d_tasks = <<>>
    /\ d_last = [kind |-> "none"]
    /\ d_solo = 0
    /\ d_signs = MaxProofSigns
    /\ d_proofs = MaxProofs
    /\ d_first = Some(None)      \* these runs do not track the first record

NextDagProof ==
    \/ DReqInit
    \/ DReqNoContext
    \/ DReqWrite
    \/ DReqSign
    \/ DTaskStep
    \/ DReqProof

SpecDagProof == InitDagProof /\ [][NextDagProof]_vars

\* the runs of Write and Read requests, which need no witness
InitDagRead ==
    /\ FANOUT = 2
    /\ CACHE_SIZE = 1
    /\ SIG_AVOID = 0
    /\ MVIdle
    /\ HIdle
    /\ TIdle
    /\ MStorageIdle
    /\ MSessionIdle
    /\ m_budget = MBudget
    /\ FnIdle
    /\ OIdle
    /\ DagIdle

NextDagRead ==
    \/ DReqInit
    \/ DReqNoContext
    \/ DReqWrite
    \/ DReqRead

SpecDagRead == InitDagRead /\ [][NextDagRead]_vars

\* C22: with one writing session, Heads is at all times the set of stored
\* records that no stored record points to, together with the capsule name
\* exactly while no stored record points to the capsule name.
C22_HeadsExact ==
    LET stored == DOMAIN d_hs.headers
        pointed == UNION {BackPtrs(d_hs.headers[m]) : m \in stored}
    IN  d_hs.heads = (stored \ pointed) \cup ({dc_name} \ pointed)

\* every record of the family is stored, the one with two dangling back
\* pointers first, and the last Write stored a record again
C22_Witness ==
    /\ d_last.kind = "Write" /\ d_last.stored_before
    /\ DOMAIN d_hs.headers = DagNames
    /\ IsSome(d_first) /\ Unwrap(d_first).header = DagHole
    /\ d_hs.heads = {hash_record_header(DagHole)}

SpecDag == InitDag /\ [][NextDag]_vars

\* C18: after Write(r) of a record r whose body_ptr is the hash of its body
\* succeeded with name n, every later Read(n) returns exactly r's header and
\* r's body, whatever records were written in between.
C18_ReadAfterWrite ==
    (/\ d_last.kind = "Read" /\ IsSome(d_first)
     /\ Unwrap(d_first).header.body_ptr = hash_data(Unwrap(d_first).body)
     /\ d_last.record_name = hash_record_header(Unwrap(d_first).header))
        => d_last.resp = [type |-> "ReadRecord", record |-> Unwrap(d_first)]

C5_CompletedProofAccepted ==
    (d_last.kind = "Proof" /\ d_last.completed) => d_last.ok

\* C6: a Write whose body_ptr is not the hash of its body is answered Failed
\* and every stored body is the preimage of its key.
C6_BodyPtrChecked ==
    /\ (d_last.kind = "Write" /\ d_last.body_ptr # hash_data(d_last.body))
           => d_last.resp = "Failed"
    /\ \A n \in DOMAIN d_hs.headers :
           /\ d_hs.headers[n].body_ptr \in DOMAIN d_bs
           /\ hash_data(d_bs[d_hs.headers[n].body_ptr]) = d_hs.headers[n].body_ptr

\* C7: witness monotonicity. No step, of a Sign request or of a propagation
\* task, moves the stored witness of a record further from a signature: the
\* old value is never closer than the new one.
C7_WitnessMonotone ==
    [][\A n \in DOMAIN d_ws \cup DOMAIN d_ws' :
           ~closer_than(ws_get(d_ws, n), ws_get(d_ws', n))]_vars

\* C7 witness: a propagation task proposed a witness that is further from a
\* signature than the stored one, and the stored one is still in place.
C7_Witness ==
    /\ d_last.kind = "UpdateWitness"
    /\ closer_than(d_last.old, d_last.proposed)
    /\ ws_get(d_ws, d_last.record_name) = d_last.old
    /\ \E t \in 1..Len(d_tasks) : ~TaskFinished(d_tasks[t])

\* the number of back pointer hops from the records of `frontier` to n through
\* stored headers, or -1 if there is no such path
RECURSIVE Hops(_, _, _, _)
Hops(frontier, visited, n, k) ==
    IF n \in frontier THEN k
    ELSE IF frontier = {} THEN 0 - 1
    ELSE Hops({c \in UNION {BackPtrs(d_hs.headers[x]) : x \in frontier} :
                  c \in DOMAIN d_hs.headers} \ (visited \cup frontier),
              visited \cup frontier, n, k + 1)

\* C8: when Sign(b, sig) has succeeded and its propagation has finished with
\* no other request in between, every stored record reachable from b through
\* stored headers has a Signature witness or a NextRecordPtr witness whose
\* distance is at most its number of hops from b.
C8_PropagationReaches ==
    (d_solo # 0 /\ TaskFinished(d_tasks[d_solo])) =>
        \A n \in DOMAIN d_hs.headers :
            LET hops == Hops({d_tasks[d_solo].base} \cap DOMAIN d_hs.headers, {}, n, 0)
                w == ws_get(d_ws, n)
            IN  hops >= 0 =>
                    \/ w.tag = "Signature"
                    \/ w.tag = "NextRecordPtr" /\ w.dist <= hops

\* C39: at every state, whatever the interleaving of Write, Sign and the
\* propagation tasks: a stored witness NextRecordPtr(h, d) of a record n has
\* d >= 1, the header of h is stored and lists n among its back pointers, and
\* the witness of h is a Signature or a NextRecordPtr of a smaller distance.
C39_PointerWitnessWellFounded ==
    \A n \in DOMAIN d_ws :
        d_ws[n].tag = "NextRecordPtr" =>
            LET h == d_ws[n].next
                d == d_ws[n].dist
                wh == ws_get(d_ws, h)
            IN  /\ d >= 1
                /\ h \in DOMAIN d_hs.headers
                /\ n \in BackPtrs(d_hs.headers[h])
                /\ \/ wh.tag = "Signature"
                   \/ wh.tag = "NextRecordPtr" /\ wh.dist < d

\* the runs of SpecDag in which a spawned propagation task is scheduled again
\* and again until it returns (tokio runs a spawn_blocking task to its end)
SpecDagLive == InitDag /\ [][NextDag]_vars /\ WF_vars(DTaskStep)

\* the number of hops of the longest back pointer path from n through stored
\* headers; -1 if the header of n is not stored
RECURSIVE LongestPath(_, _)
LongestPath(headers, n) ==
    IF n \notin DOMAIN headers THEN 0 - 1
    ELSE LET below == {LongestPath(headers, b) : b \in BackPtrs(headers[n])} \cup {0 - 1}
         IN  1 + CHOOSE m \in below : \A k \in below : k <= m

\* a running task is in a wave no later than the longest path from its base plus one
WaveBound ==
    \A t \in 1..Len(d_tasks) :
        d_tasks[t].pc = "wave" =>
            /\ d_tasks[t].dist_from_new_sig <= LongestPath(d_hs.headers, d_tasks[t].base) + 1
            /\ d_tasks[t].i <= Len(d_tasks[t].curr_wave)

\* C31: a propagation started by Sign terminates, and it never runs more
\* waves than the longest back pointer path from the signed record through
\* the stored records has hops, plus one, also while other propagations and
\* Write and Sign requests run beside it.
C31_PropagationTerminates ==
    /\ []WaveBound
    /\ \A t \in 1..MaxSigns :
           (t <= Len(d_tasks)) ~> (t <= Len(d_tasks) /\ TaskFinished(d_tasks[t]))

\* C31 witness: a task is in its last possible wave, the third, while another
\* task is still running
C31_Witness ==
    \E t \in 1..Len(d_tasks), u \in 1..Len(d_tasks) :
        /\ t # u
        /\ d_tasks[t].pc = "wave"
        /\ d_tasks[t].dist_from_new_sig = 3
        /\ d_tasks[t].dist_from_new_sig = LongestPath(d_hs.headers, d_tasks[t].base) + 1
        /\ ~TaskFinished(d_tasks[u])

\* the proof best_effort_proof builds for n against the session's mirror cache
ProofFor(n) ==
    ProofWalk(d_hs, d_ws,
              IF IsSome(d_ctx) THEN Unwrap(d_ctx).client_proven_hash_cache ELSE {},
              n, <<>>)

\* C40: best_effort_proof terminates, and for every record n whose header is
\* stored and whose witness is not None it returns a completed proof: a chain
\* of at most d + 1 headers (d the stored distance of n, 0 for a Signature)
\* that starts at n and ends at a record with a Signature witness, which the
\* proof carries, or at a record of the session's mirror of the proven hashes.
C40_ProofCompleted ==
    \A n \in DOMAIN d_hs.headers :
        ws_get(d_ws, n).tag # "None" =>
            LET w == ProofFor(n)
                d == IF ws_get(d_ws, n).tag = "Signature" THEN 0 ELSE ws_get(d_ws, n).dist
                last == hash_record_header(w.chain[Len(w.chain)])
            IN  /\ w.completed
                /\ Len(w.chain) >= 1
                /\ Len(w.chain) <= d + 1
                /\ hash_record_header(w.chain[1]) = n
                /\ \/ /\ IsSome(w.signature)
                      /\ Unwrap(w.signature).record_name = last
                      /\ ws_get(d_ws, last).tag = "Signature"
                   \/ /\ w.signature = None
                      /\ IsSome(d_ctx)
                      /\ last \in Unwrap(d_ctx).client_proven_hash_cache

\* C40 witness: the last request was a Proof for a record with a pointer
\* witness of distance 2, and the server returned a completed proof
C40_Witness ==
    /\ d_last.kind = "Proof" /\ d_last.completed
    /\ ws_get(d_ws, d_last.record_name).tag = "NextRecordPtr"
    /\ ws_get(d_ws, d_last.record_name).dist = 2
    /\ d_last.record_name \in DOMAIN d_hs.headers

\* C39 witness: a record two hops from a signed record holds a pointer of
\* distance 2 to a record that holds a pointer of distance 1, while a second
\* propagation is still running
C39_Witness ==
    /\ \E n \in DOMAIN d_ws :
           /\ d_ws[n].tag = "NextRecordPtr" /\ d_ws[n].dist = 2
           /\ ws_get(d_ws, d_ws[n].next).tag = "NextRecordPtr"
    /\ \E t \in 1..Len(d_tasks) : ~TaskFinished(d_tasks[t])
    /\ Len(d_tasks) = 2

-----------------------------------------------------------------------------
(* DAG-MODE client against an arbitrary (possibly malicious) server.  The   *)
(* writer has signed DagSecond only; the server may present that           *)
(* signature, signatures of another key, and any chain of headers.         *)

AdvHeaders == {DagGenesis, DagSecond, DagLate}

AdvSignatures ==
    {None,
     Some([record_name |-> hash_record_header(DagSecond),
           sig |-> sign(hash_record_header(DagSecond), WriterKey)]),
     Some([record_name |-> hash_record_header(DagLate),
           sig |-> sign(hash_record_header(DagLate), OtherKey)]),
     Some([record_name |-> hash_record_header(DagLate),
           sig |-> sign(hash_record_header(DagSecond), WriterKey)])}

\* the signature of the response verifies under the writer's key
SignedByWriter(signature) ==
    /\ IsSome(signature)
    /\ Unwrap(signature).sig = sign(Unwrap(signature).record_name, WriterKey)

\* the first k headers of the chain are linked by back pointers, each later
\* header listing the name of the one before it
LinkedPrefix(chain, k) ==
    \A i \in 1..(k - 1) : hash_record_header(chain[i]) \in BackPtrs(chain[i + 1])

\* the names known to descend from a writer-signed record after a response
DVLegitAfter(legit, proof) ==
    IF IsSome(proof.signature) /\ ~SignedByWriter(proof.signature) THEN legit
    ELSE LET base == IF IsSome(proof.signature)
                     THEN legit \cup {Unwrap(proof.signature).record_name}
                     ELSE legit
         IN  base \cup
             {hash_record_header(proof.chain[j]) :
                 j \in {j \in 1..Len(proof.chain) :
                           \E k \in j..Len(proof.chain) :
                               /\ hash_record_header(proof.chain[k]) \in base
                               /\ LinkedPrefix(proof.chain, k)}}

\* chain[0] hashes to the target and the chain is linked up to a header that is
\* signed in this response or was proven earlier
ChainProves(record_name_to_prove, proof, legit) ==
    /\ proof.chain # <<>>
    /\ hash_record_header(proof.chain[1]) = record_name_to_prove
    /\ \E k \in 1..Len(proof.chain) :
           /\ LinkedPrefix(proof.chain, k)
           /\ \/ hash_record_header(proof.chain[k]) \in legit
              \/ /\ SignedByWriter(proof.signature)
                 /\ hash_record_header(proof.chain[k]) = Unwrap(proof.signature).record_name

DVFrame == UNCHANGED <<cfgVars, fnVars, hVars, tVars, merkleVars, dstVars, dsVars>>

InitDV ==
    /\ FANOUT = 2
    /\ CACHE_SIZE \in 1..MaxCacheSize
    /\ SIG_AVOID = 0
    /\ MVIdle
    /\ HIdle
    /\ TIdle
    /\ MStorageIdle
    /\ MSessionIdle
    /\ m_budget = MBudget
    /\ FnIdle
    /\ OIdle
    /\ DagIdle

\* response_to_client_response, (Response::Init, ClientSync::Init)
DVClientInit ==
    /\ dv_cache' = {}
    /\ dv_legit' = {}
    /\ dv_last' = [kind |-> "Init"]
    /\ DVFrame

\* response_to_client_response, (Response::ReadProof(proof), ClientSync::Proof(hash))
DVClientProof ==
    \E header \in AdvHeaders, signature \in AdvSignatures,
       chain \in SeqsUpTo(AdvHeaders, MaxAdvChain) :
        LET record_name == hash_record_header(header)
            proof == [chain |-> chain, signature |-> signature]
        IN  \E c \in dag_verify_proof(record_name, proof, WriterKey, dv_cache) :
                /\ dv_cache' = c.cache
                /\ dv_legit' = DVLegitAfter(dv_legit, proof)
                /\ dv_last' = [kind |-> "Proof", record_name |-> record_name, ok |-> c.ok,
                               proves |-> ChainProves(record_name, proof, dv_legit),
                               len |-> Len(chain)]
                /\ DVFrame

\* a faulty variant: the body is not compared with the header's body_ptr
client_read_unchecked_body(record, hash) ==
    IF hash_record_header(record.header) = hash
    THEN [type |-> "Read", plaintext_of |-> record.body,
          record_backptrs |-> record.header.record_backptrs]
    ELSE [type |-> "CryptographyFail"]

\* response_to_client_response, (Response::ReadRecord(record), ClientSync::Read(hash)):
\* the typed response; Read carries the decryption of the body
client_read(record, hash) ==
    LET header_match == hash_record_header(record.header) = hash
        body_match == hash_data(record.body) = record.header.body_ptr
    IN  IF header_match /\ body_match
        THEN [type |-> "Read", plaintext_of |-> record.body,
              record_backptrs |-> record.header.record_backptrs]
        ELSE [type |-> "CryptographyFail"]

\* the client asked to read `hash` and the server answers with any record
DVClientRead ==
    \E hash \in {hash_record_header(h) : h \in AdvHeaders},
       header \in AdvHeaders, body \in 1..NData :
        LET record == [body |-> body, header |-> header]
        IN  /\ dv_last' = [kind |-> "Read", hash |-> hash, record |-> record,
                           out |-> client_read(record, hash)]
            /\ UNCHANGED <<dv_cache, dv_legit>>
            /\ DVFrame

NextDV == DVClientInit \/ DVClientProof \/ DVClientRead

SpecDV == InitDV /\ [][NextDV]_vars

\* C2: DAG-MODE soundness. verify_proof returns Ok for n only if chain[0]
\* hashes to n and the headers of the chain are linked, each by a back pointer
\* of the next, up to a header that is writer-signed in this response or was
\* proven earlier in the session.
C2_DagSoundness ==
    (dv_last.kind = "Proof" /\ dv_last.ok) => dv_last.proves

-----------------------------------------------------------------------------
(* The DAG-MODE server process: run_server accepts connections, one handle *)
(* task per connection hands each envelope to the handle_client task of the *)
(* sending peer, and handle_client answers the batches one after the other. *)
(* A panic ends the task it happens in; in run_server it ends the process.  *)

MaxBatch     == 2       \* requests in one envelope
MaxEnvelopes == 3       \* envelopes the peers send in a run
MaxQueued    == 2       \* envelopes waiting in one per_client_pipes channel

\* the capsule metadata a Create carries: creator key bytes and signature bytes,
\* each either well formed or not parseable
HMetadata ==
    {GoodMetadata,
     [GoodMetadata EXCEPT !.creator_pub_key = "malformed"],
     [GoodMetadata EXCEPT !.signature = [by |-> "malformed", msg |-> dc_name]]}

HRequests ==
    {[type |-> "Create", dc |-> dc] : dc \in HMetadata}
    \cup {[type |-> "Init", dc |-> dc_name],
          [type |-> "Write", record |-> [body |-> 1, header |-> DagGenesis]],
          [type |-> "Subscribe"]}

\* the content of an envelope: bytes that postcard decodes to a batch, or not
HEnvelopes ==
    {[decodes |-> FALSE, reqs |-> <<>>]}
    \cup {[decodes |-> TRUE, reqs |-> reqs] : reqs \in SeqsUpTo(HRequests, MaxBatch)}

\* a faulty variant: the metadata is stored without its signature being verified
handle_create_unverified(dc, ms, hs) ==
    [panic |-> FALSE, resp |-> [type |-> "ManageCreate", signature |-> dc.signature],
     ms |-> Store(ms, hash_dc_metadata(dc.creator_pub_key, dc.writer_pub_key,
                                       dc.description), dc),
     hs |-> hs]

\* handle_create: deserialize_pubkey unwraps and verify_signature expects, so
\* bytes that do not parse panic; a good signature stores the metadata and
\* calls init_marked, which sets HEADS and ROOTS to the capsule name; `hs` are
\* the trees of the capsule dc_name, those of other capsules are not modelled
handle_create(dc, ms, hs) ==
    LET hash == hash_dc_metadata(dc.creator_pub_key, dc.writer_pub_key, dc.description)
    IN  IF dc.creator_pub_key = "malformed" \/ dc.signature.by = "malformed"
        THEN [panic |-> TRUE, resp |-> [type |-> "Failed"], ms |-> ms, hs |-> hs]
        ELSE IF ~verify_signature(dc.signature, hash, dc.creator_pub_key)
        THEN [panic |-> FALSE, resp |-> [type |-> "Failed"], ms |-> ms, hs |-> hs]
        ELSE [panic |-> FALSE,
              resp |-> [type |-> "ManageCreate", signature |-> sign(hash, ServerKey)],
              ms |-> Store(ms, hash, dc),
              hs |-> IF hash = dc_name
                     THEN [hs EXCEPT !.heads = {dc_name}, !.roots = {dc_name}]
                     ELSE hs]

\* request_to_response on the state st the earlier requests of the batch left:
\* the metadata table, the capsule's trees, the session's Option<DCContext>,
\* the responses so far and whether the task has panicked
request_to_response(req, st) ==
    LET reply(resp) == [st EXCEPT !.resps = Append(@, resp)]
    IN  CASE req.type = "Create" ->
                 LET r == handle_create(req.dc, st.ms, st.hs)
                 IN  IF r.panic THEN [st EXCEPT !.panicked = TRUE]
                     ELSE [reply(r.resp) EXCEPT !.ms = r.ms, !.hs = r.hs]
          [] req.type = "Init" ->
                 IF req.dc \in DOMAIN st.ms
                 THEN [reply([type |-> "Init"]) EXCEPT
                           !.ctx = Some([client_proven_hash_cache |-> {}])]
                 ELSE reply([type |-> "Failed"])
          [] req.type = "Write" /\ IsSome(st.ctx) ->
                 LET r == dag_handle_write(req.record, st.bs, st.hs)
                 IN  [reply(r.resp) EXCEPT !.bs = r.bs, !.hs = r.hs]
          [] req.type = "Subscribe" /\ IsSome(st.ctx) ->
                 [st EXCEPT !.panicked = TRUE]
          [] OTHER -> reply([type |-> "Failed"])

\* many_requests.into_iter().map(request_to_response).collect(), from request i on
RECURSIVE RunBatch(_, _, _)
RunBatch(reqs, i, st) ==
    IF i > Len(reqs) \/ st.panicked THEN st
    ELSE RunBatch(reqs, i + 1, request_to_response(reqs[i], st))

HFrame == UNCHANGED <<cfgVars, fnVars, tVars, merkleVars, dvVars, dsVars, d_ws, h_store>>

\* handle: the next envelope of peer p's connection goes to p's channel; the
\* first one creates the channel and spawns handle_client, and a channel whose
\* handle_client is gone makes send(m).unwrap() panic
HDeliver(p) ==
    /\ h_up
    /\ h_peer[p].conn = "up"
    /\ h_envs > 0
    /\ Len(h_peer[p].chan) < MaxQueued
    /\ \E env \in HEnvelopes :
           LET pipe == h_peer[p].pipe
           IN  /\ h_peer' = [h_peer EXCEPT ![p] =
                     CASE pipe = "none" -> [@ EXCEPT !.pipe = "open", !.chan = <<env>>]
                       [] pipe = "open" -> [@ EXCEPT !.chan = Append(@, env)]
                       [] OTHER -> [@ EXCEPT !.conn = "dead"]]
               /\ h_last' = [kind |-> "deliver", peer |-> p, pipe |-> pipe,
                             decodes |-> env.decodes, ok |-> pipe \in {"none", "open"}]
    /\ h_envs' = h_envs - 1
    /\ UNCHANGED <<h_ms, h_up, d_hs, d_bs>>
    /\ HFrame

\* handle_client, one turn of its loop: take the oldest envelope, decode it,
\* answer the batch; send_one fails when the peer's writer task has ended
HClientLoop(p) ==
    /\ h_up
    /\ h_peer[p].pipe = "open"
    /\ h_peer[p].chan # <<>>
    /\ \E send_ok \in BOOLEAN :
           LET env == Head(h_peer[p].chan)
               st0 == [ms |-> h_ms, hs |-> d_hs, bs |-> d_bs, ctx |-> h_peer[p].ctx,
                       resps |-> <<>>, panicked |-> FALSE]
               st  == IF env.decodes THEN RunBatch(env.reqs, 1, st0) ELSE st0
               outcome == IF ~env.decodes THEN "undecodable"
                          ELSE IF st.panicked THEN "panicked"
                          ELSE IF send_ok THEN "sent" ELSE "send_failed"
           IN  /\ send_ok \/ outcome = "send_failed"
               /\ h_ms' = st.ms
               /\ d_hs' = st.hs
               /\ d_bs' = st.bs
               /\ h_peer' = [h_peer EXCEPT ![p] =
                     IF outcome = "sent"
                     THEN [@ EXCEPT !.chan = Tail(@), !.ctx = st.ctx]
                     ELSE [@ EXCEPT !.pipe = IF outcome = "panicked" THEN "panicked"
                                             ELSE "ended",
                                    !.chan = <<>>, !.ctx = None]]
               /\ h_last' = [kind |-> "batch", peer |-> p, reqs |-> env.reqs,
                             resps |-> st.resps, outcome |-> outcome]
    /\ UNCHANGED <<h_up, h_envs>>
    /\ HFrame

\* P2PComm::accept for a peer that dials again after its session was ended: the
\* peer's entry of `receivers` was removed by its first accept, so
\* remove(..).unwrap() panics in run_server
HAccept(p) ==
    /\ h_up
    /\ h_peer[p].pipe \in {"ended", "panicked"}
    /\ h_up' = FALSE
    /\ h_last' = [kind |-> "accept", peer |-> p, pipe |-> h_peer[p].pipe]
    /\ UNCHANGED <<h_ms, h_peer, h_envs, d_hs, d_bs>>
    /\ HFrame

\* a fresh database: no capsule, no peer heard of yet
InitSession ==
    /\ FANOUT = 2
    /\ CACHE_SIZE = 1
    /\ SIG_AVOID = 0
    /\ MVIdle
    /\ MStorageIdle
    /\ MSessionIdle
    /\ m_budget = MBudget
    /\ FnIdle
    /\ OIdle
    /\ d_hs = [hs_new EXCEPT !.heads = {}, !.roots = {}]
    /\ d_bs = EmptyMap
    /\ d_ws = EmptyMap
    /\ DSessionIdle
    /\ DVIdle
    /\ h_ms = EmptyMap
    /\ h_peer = [p \in Sessions |->
                    [conn |-> "up", pipe |-> "none", chan |-> <<>>, ctx |-> None]]
    /\ h_up = TRUE
    /\ h_envs = MaxEnvelopes
    /\ h_last = [kind |-> "none"]
    /\ h_store = StoreIdle
    /\ TIdle

NextSession ==
    \/ \E p \in Sessions : HDeliver(p)
    \/ \E p \in Sessions : HClientLoop(p)
    \/ \E p \in Sessions : HAccept(p)

SpecSession == InitSession /\ [][NextSession]_vars

\* the well-formed metadata of the model: any of two creators, two writers and
\* two descriptions, signed by either creator over the name of the capsule or
\* over the name of another one
CreateMetadata ==
    {[creator_pub_key |-> c, writer_pub_key |-> w, description |-> d,
      signature |-> sign(IF own THEN hash_dc_metadata(c, w, d) ELSE dc_name, k)] :
        c \in {CreatorKey, OtherKey}, w \in {WriterKey, OtherKey}, d \in 1..2,
        k \in {CreatorKey, OtherKey}, own \in BOOLEAN}

\* request_to_response, (Request::Manage(ManageRequest::Create(dc)), _)
HReqCreate ==
    /\ \E dc \in CreateMetadata :
           LET r == handle_create(dc, h_ms, d_hs)
           IN  /\ ~r.panic
               /\ h_ms' = r.ms
               /\ d_hs' = r.hs
               /\ h_last' = [kind |-> "create", dc |-> dc, resp |-> r.resp.type]
    /\ UNCHANGED <<h_peer, h_up, h_envs, d_bs>>
    /\ HFrame

NextCreate == HReqCreate

SpecCreate == InitSession /\ [][NextCreate]_vars

\* C25: every capsule in the metadata table is stored under the hash of its
\* creator key, writer key and description, and its signature verifies over
\* that name under its creator key; a Create whose signature does not verify
\* replies Failed and is not stored.
C25_MetadataVerified ==
    /\ \A n \in DOMAIN h_ms :
           /\ n = hash_dc_metadata(h_ms[n].creator_pub_key, h_ms[n].writer_pub_key,
                                   h_ms[n].description)
           /\ verify_signature(h_ms[n].signature, n, h_ms[n].creator_pub_key)
    /\ h_last.kind = "create" =>
           LET dc == h_last.dc
               name == hash_dc_metadata(dc.creator_pub_key, dc.writer_pub_key,
                                        dc.description)
           IN  ~verify_signature(dc.signature, name, dc.creator_pub_key)
                   => /\ h_last.resp = "Failed"
                      /\ \A n \in DOMAIN h_ms : h_ms[n] # dc

\* a Create signed by another key than its creator's was refused while two
\* capsules were stored
C25_Witness ==
    /\ h_last.kind = "create" /\ h_last.resp = "Failed"
    /\ h_last.dc.signature.by # h_last.dc.creator_pub_key
    /\ Cardinality(DOMAIN h_ms) >= 2

\* C13: batch contract. Every envelope that decodes to n requests is answered
\* with one envelope of n responses, unless the send itself fails.
C13_BatchAnswered ==
    (h_last.kind = "batch" /\ h_last.outcome \notin {"undecodable", "send_failed"})
        => (h_last.outcome = "sent" /\ Len(h_last.resps) = Len(h_last.reqs))

\* C15: a Create whose key bytes or signature bytes do not parse gets Failed in
\* its own slot, and the batch is answered in full and the session goes on.
C15_MalformedAnsweredFailed ==
    h_last.kind = "batch" =>
        \A i \in 1..Len(h_last.reqs) :
            (/\ h_last.reqs[i].type = "Create"
             /\ \/ h_last.reqs[i].dc.creator_pub_key = "malformed"
                \/ h_last.reqs[i].dc.signature.by = "malformed")
            => /\ h_last.outcome \in {"sent", "send_failed"}
               /\ Len(h_last.resps) = Len(h_last.reqs)
               /\ h_last.resps[i].type = "Failed"
               /\ h_peer[h_last.peer].pipe = "open" \/ h_last.outcome = "send_failed"

\* C16: after handle_client ended a session on an undecodable envelope or a
\* failed send, a later well-formed envelope of the same peer starts a fresh
\* session, and a peer that dials again leaves the server running.
C16_SessionRestarts ==
    /\ (h_last.kind = "deliver" /\ h_last.pipe = "ended" /\ h_last.decodes)
           => /\ h_last.ok
              /\ h_peer[h_last.peer].pipe = "open"
              /\ h_peer[h_last.peer].ctx = None
    /\ (h_last.kind = "accept" /\ h_last.pipe = "ended") => h_up

\* C17: a Create for the capsule that already exists leaves its metadata, its
\* records, its Heads and its Roots as they were.
C17_RepeatedCreateFrame ==
    [][(/\ h_last'.kind = "batch"
        /\ h_last'.reqs = <<[type |-> "Create", dc |-> GoodMetadata]>>
        /\ dc_name \in DOMAIN h_ms)
       => (h_ms' = h_ms /\ d_hs' = d_hs /\ d_bs' = d_bs)]_vars

-----------------------------------------------------------------------------
(* Two sessions of the DAG-MODE server write to one capsule at the same    *)
(* time.  The handle_client tasks run in parallel on the runtime's worker  *)
(* threads, so store_record of one session interleaves with that of the    *)
(* other between any two accesses of the sled trees.  The accesses of       *)
(* RecordHeaderStorage::store are taken in five groups, in program order.   *)

SFrame == UNCHANGED <<cfgVars, fnVars, tVars, merkleVars, dvVars, dsVars, d_ws, h_ms, h_peer, h_up, h_envs, h_last>>

\* store_record: bs.store, then hs.store up to self.headers.insert
SStoreBegin(s) ==
    /\ h_store[s].pc = "idle"
    /\ \E header \in DagHeaders :
           /\ \A o \in Sessions : h_store[o].header # Some(header)
           /\ d_bs' = Store(d_bs, header.body_ptr, header.body_ptr[1])
           /\ d_hs' = [d_hs EXCEPT
                          !.headers = Store(@, hash_record_header(header), header)]
           /\ h_store' = [h_store EXCEPT ![s] = [@ EXCEPT !.pc = "read",
                                                          !.header = Some(header)]]
    /\ SFrame

\* let mut heads = self.get_heads()?; let mut roots = self.get_roots()?
SStoreRead(s) ==
    /\ h_store[s].pc = "read"
    /\ h_store' = [h_store EXCEPT ![s] = [@ EXCEPT !.pc = "ptrs", !.heads = d_hs.heads,
                                                   !.roots = d_hs.roots]]
    /\ UNCHANGED <<d_hs, d_bs>>
    /\ SFrame

\* the fetch_and_update of reverse_ptrs for every back pointer, heads.remove
\* of the local copy, and roots.remove of the records that point to the new one
SStorePtrs(s) ==
    /\ h_store[s].pc = "ptrs"
    /\ LET header == Unwrap(h_store[s].header)
           record_name == hash_record_header(header)
           rp == AddReversePtrs(d_hs.reverse_ptrs, record_name, header.record_backptrs, 1)
       IN  /\ d_hs' = [d_hs EXCEPT !.reverse_ptrs = rp]
           /\ h_store' = [h_store EXCEPT ![s] =
                  [@ EXCEPT !.pc = "heads",
                            !.heads = @ \ BackPtrs(header),
                            !.roots = @ \ get_incoming_ptrs(rp, record_name)]]
    /\ UNCHANGED d_bs
    /\ SFrame

\* the reverse search for new heads, and set_heads of the local copy
SStoreHeads(s) ==
    /\ h_store[s].pc = "heads"
    /\ LET record_name == hash_record_header(Unwrap(h_store[s].header))
           new_heads == {x \in ReverseVisited(d_hs.headers, d_hs.reverse_ptrs,
                                              {record_name}, {}) :
                            \A c \in get_incoming_ptrs(d_hs.reverse_ptrs, x) :
                                c \notin DOMAIN d_hs.headers}
       IN  d_hs' = [d_hs EXCEPT !.heads = h_store[s].heads \cup new_heads]
    /\ h_store' = [h_store EXCEPT ![s] = [@ EXCEPT !.pc = "roots"]]
    /\ UNCHANGED d_bs
    /\ SFrame

\* the forward search for new roots, set_roots of the local copy, and the
\* WriteData response
SStoreRoots(s) ==
    /\ h_store[s].pc = "roots"
    /\ LET record_name == hash_record_header(Unwrap(h_store[s].header))
           headers == d_hs.headers
           new_roots == {x \in ForwardVisited(headers, {record_name}, {}) :
                            x \in DOMAIN headers =>
                                \A c \in BackPtrs(headers[x]) : c \notin DOMAIN headers}
       IN  d_hs' = [d_hs EXCEPT !.roots = h_store[s].roots \cup new_roots]
    /\ h_store' = [h_store EXCEPT ![s] = [@ EXCEPT !.pc = "done"]]
    /\ UNCHANGED d_bs
    /\ SFrame

\* the capsule as Create left it, or with one record stored by an earlier
\* session; h_last remembers these tables
InitStore ==
    /\ FANOUT = 2
    /\ CACHE_SIZE = 1
    /\ SIG_AVOID = 0
    /\ MVIdle
    /\ MStorageIdle
    /\ MSessionIdle
    /\ m_budget = MBudget
    /\ FnIdle
    /\ OIdle
    /\ \/ d_hs = hs_new /\ d_bs = EmptyMap
       \/ \E header \in DagHeaders :
              LET r == store_record([body |-> header.body_ptr[1], header |-> header],
                                    EmptyMap, hs_new)
              IN  d_hs = r.hs /\ d_bs = r.bs
    /\ d_ws = EmptyMap
    /\ DSessionIdle
    /\ DVIdle
    /\ h_ms = Store(EmptyMap, dc_name, GoodMetadata)
    /\ h_peer = [p \in Sessions |->
                    [conn |-> "up", pipe |-> "none", chan |-> <<>>, ctx |-> None]]
    /\ h_up = TRUE
    /\ h_envs = 0
    /\ h_last = [kind |-> "base", hs |-> d_hs]
    /\ h_store = StoreIdle
    /\ TIdle

NextStore ==
    \E s \in Sessions :
        \/ SStoreBegin(s)
        \/ SStoreRead(s)
        \/ SStorePtrs(s)
        \/ SStoreHeads(s)
        \/ SStoreRoots(s)

SpecStore == InitStore /\ [][NextStore]_vars

\* C23: when two sessions have written different records concurrently, Heads
\* and Roots are what the two Writes give when run one after the other, in one
\* of the two orders.
C23_WritesSerializable ==
    (\A s \in Sessions : h_store[s].pc = "done") =>
        \E s \in Sessions : \E t \in Sessions \ {s} :
            LET a == Unwrap(h_store[s].header)
                b == Unwrap(h_store[t].header)
                serial == hs_store(hs_store(h_last.hs, hash_record_header(a), a),
                                   hash_record_header(b), b)
            IN  d_hs.heads = serial.heads /\ d_hs.roots = serial.roots

\* C26: for a ReadRecord response the DAG client returns Read exactly when the
\* header hashes to the requested name and the body hashes to the header's
\* body_ptr; otherwise it returns CryptographyFail; its proven-hash cache is
\* left as it was either way.
C26_ReadChecked ==
    [][dv_last'.kind = "Read" =>
          /\ dv_cache' = dv_cache
          /\ IF /\ hash_record_header(dv_last'.record.header) = dv_last'.hash
                /\ hash_data(dv_last'.record.body) = dv_last'.record.header.body_ptr
             THEN /\ dv_last'.out.type = "Read"
                  /\ dv_last'.out.plaintext_of = dv_last'.record.body
             ELSE dv_last'.out.type = "CryptographyFail"]_vars

\* the server returned the requested header with another body, while the
\* client's cache held a proven name
C26_Witness ==
    /\ dv_last.kind = "Read"
    /\ hash_record_header(dv_last.record.header) = dv_last.hash
    /\ hash_data(dv_last.record.body) # dv_last.record.header.body_ptr
    /\ dv_last.out.type = "CryptographyFail"
    /\ dv_cache # {}

-----------------------------------------------------------------------------
(* The TCP writer connection (rustdc): client/writer.rs do_operations with  *)
(* its send and receive halves, server/writer.rs process_writer with       *)
(* server/mod.rs wait_for_request, and the buffers between them.  A Framed  *)
(* sink buffers what is fed to it and writes it to the socket when it is    *)
(* flushed, or when a feed finds the buffer at its backpressure boundary;   *)
(* a socket takes no more than its buffers hold until the peer reads.       *)

MaxBuf     == 1         \* frames a Framed write buffer holds before a feed must flush it
MaxWire    == 1         \* frames in transit in one direction of the connection
MaxMixed   == 2         \* operations of a batch that mixes kinds
MaxBatches == 2         \* do_operations calls on one connection
MaxFaults  == 1         \* requests the server's storage fails on

\* the longest batch: enough operations to fill every buffer in both directions
MaxOps == 2 * (MaxBuf + MaxWire) + 2

\* the operations of one do_operations call: short batches of writes and
\* reads, and the longest batch of writes
TBatches ==
    (SeqsUpTo({"Write", "Read"}, MaxMixed) \ {<<>>}) \cup {[i \in 1..MaxOps |-> "Write"]}

\* WriterSync of an operation
sync_of(op) == op

\* a failed call leaves the tag at the other end of the channel
push_tag_front(tags, tag) == <<tag>> \o tags

\* inner_w.send: the tag joins the unbounded FIFO channel
push_tag(tags, tag) == Append(tags, tag)

\* wait_for_request when no request is ready: flush what is buffered, then wait
flush_then_wait(sbuf) == IF sbuf = <<>> THEN "next" ELSE "flush"

\* process_writer's match on the request; `failed` is the outcome of the storage it calls
process_request(req, failed) ==
    [for  |-> req.name,
     kind |-> CASE failed -> "Failed"
                [] req.sync = "Write" -> "WriteData"
                [] OTHER -> "ReadRecord"]

\* receive_operations' match on (response, sync): what is pushed to
\* `responses`, or the error it returns
receive_match(resp, tag) ==
    CASE resp.kind = "Failed" /\ tag.sync = "Write" -> [err |-> TRUE,  res |-> "server failure"]
      [] resp.kind = "Failed" /\ tag.sync = "Read"  -> [err |-> FALSE, res |-> "Read(None)"]
      [] resp.kind = "WriteData" /\ tag.sync = "Write" -> [err |-> FALSE, res |-> "Write"]
      [] resp.kind = "ReadRecord" /\ tag.sync = "Read" -> [err |-> FALSE, res |-> "Read"]
      [] OTHER -> [err |-> TRUE, res |-> "mismatched response"]

tcpVars == <<t_ops, t_send, t_recv, t_ret, t_wbuf, t_c2s, t_srv, t_sbuf, t_s2c, t_tags,
             t_nsent, t_nread, t_last, t_batches, t_faults>>

TFrame == UNCHANGED <<cfgVars, fnVars, hVars, merkleVars, dagVars, k_conn, k_last>>

\* do_operations: both halves are started on the batch
TDoOperations(ops) ==
    /\ t_ret # "running"
    /\ t_batches > 0
    /\ t_ops' = ops
    /\ t_send' = [pc |-> "feed", i |-> 0]
    /\ t_recv' = [pc |-> "next", j |-> 0, resp |-> None]
    /\ t_ret' = "running"
    /\ t_batches' = t_batches - 1
    /\ UNCHANGED <<t_wbuf, t_c2s, t_srv, t_sbuf, t_s2c, t_tags, t_nsent, t_nread, t_last>>
    /\ UNCHANGED t_faults
    /\ TFrame

\* send_operations, one operation: connection_w.feed(req).await? and then
\* inner_w.send((sync, record_name)); the feed may fail (encoding, I/O); the
\* k-th request of the connection names record k
TSendFeed ==
    /\ t_ret = "running"
    /\ t_send.pc = "feed"
    /\ t_send.i < Len(t_ops)
    /\ Len(t_wbuf) < MaxBuf
    /\ \E ok \in BOOLEAN :
          LET sync == sync_of(t_ops[t_send.i + 1])
              name == t_nsent + 1
          IN  IF ok
              THEN /\ t_wbuf' = Append(t_wbuf, [name |-> name, sync |-> sync])
                   /\ t_tags' = push_tag(t_tags, [sync |-> sync, name |-> name])
                   /\ t_nsent' = t_nsent + 1
                   /\ t_send' = [t_send EXCEPT !.i = @ + 1]
              ELSE /\ t_send' = [t_send EXCEPT !.pc = "failed"]
                   /\ UNCHANGED <<t_wbuf, t_tags, t_nsent>>
    /\ UNCHANGED <<t_ops, t_recv, t_ret, t_c2s, t_srv, t_sbuf, t_s2c, t_nread, t_last, t_batches>>
    /\ UNCHANGED t_faults
    /\ TFrame

\* send_operations: a feed that finds the buffer at its boundary flushes it
\* first, and after the last operation connection_w.flush().await?
TSendFlush ==
    /\ t_ret = "running"
    /\ t_send.pc = "feed"
    /\ IF t_send.i = Len(t_ops)
       THEN t_send' = [t_send EXCEPT !.pc = IF t_wbuf = <<>> THEN "done" ELSE "flush"]
       ELSE /\ Len(t_wbuf) >= MaxBuf
            /\ t_send' = [t_send EXCEPT !.pc = "ready"]
    /\ UNCHANGED <<t_ops, t_recv, t_ret, t_wbuf, t_c2s, t_srv, t_sbuf, t_s2c, t_tags,
                   t_nsent, t_nread, t_last, t_batches>>
    /\ UNCHANGED t_faults
    /\ TFrame

\* the client's sink writes a buffered request to the socket, when the socket takes it
TSendTransmit ==
    /\ t_ret = "running"
    /\ t_send.pc \in {"ready", "flush"}
    /\ t_wbuf # <<>>
    /\ Len(t_c2s) < MaxWire
    /\ t_c2s' = Append(t_c2s, Head(t_wbuf))
    /\ t_wbuf' = Tail(t_wbuf)
    /\ t_send' = IF Tail(t_wbuf) # <<>> THEN t_send
                 ELSE [t_send EXCEPT !.pc = IF @ = "ready" THEN "feed" ELSE "done"]
    /\ UNCHANGED <<t_ops, t_recv, t_ret, t_srv, t_sbuf, t_s2c, t_tags,
                   t_nsent, t_nread, t_last, t_batches>>
    /\ UNCHANGED t_faults
    /\ TFrame

\* wait_for_request: stream.next().now_or_never(), and when no request is
\* ready, flush and then wait; the request taken is processed at once
TSrvRequest ==
    /\ t_srv.pc \in {"poll", "next"}
    /\ IF t_c2s # <<>>
       THEN /\ \E failed \in {FALSE} \cup {t_faults > 0} :
                  /\ t_srv' = [pc |-> "feed",
                               resp |-> Some(process_request(Head(t_c2s), failed))]
                  /\ t_faults' = IF failed THEN t_faults - 1 ELSE t_faults
            /\ t_c2s' = Tail(t_c2s)
       ELSE /\ t_srv.pc = "poll"
            /\ t_srv' = [t_srv EXCEPT !.pc = flush_then_wait(t_sbuf)]
            /\ UNCHANGED <<t_c2s, t_faults>>
    /\ UNCHANGED <<t_ops, t_send, t_recv, t_ret, t_wbuf, t_sbuf, t_s2c, t_tags,
                   t_nsent, t_nread, t_last, t_batches>>
    /\ TFrame

\* process_writer: stream.feed(resp).await?; a feed that finds the buffer at
\* its boundary flushes it first
TSrvFeed ==
    /\ t_srv.pc = "feed"
    /\ IF Len(t_sbuf) < MaxBuf
       THEN /\ t_sbuf' = Append(t_sbuf, Unwrap(t_srv.resp))
            /\ t_srv' = [pc |-> "poll", resp |-> None]
       ELSE /\ t_srv' = [t_srv EXCEPT !.pc = "ready"]
            /\ UNCHANGED t_sbuf
    /\ UNCHANGED <<t_ops, t_send, t_recv, t_ret, t_wbuf, t_c2s, t_s2c, t_tags,
                   t_nsent, t_nread, t_last, t_batches>>
    /\ UNCHANGED t_faults
    /\ TFrame

\* the server's sink writes a buffered response to the socket, when the socket takes it
TSrvTransmit ==
    /\ t_srv.pc \in {"ready", "flush"}
    /\ t_sbuf # <<>>
    /\ Len(t_s2c) < MaxWire
    /\ t_s2c' = Append(t_s2c, Head(t_sbuf))
    /\ t_sbuf' = Tail(t_sbuf)
    /\ t_srv' = IF Tail(t_sbuf) # <<>> THEN t_srv
                ELSE [t_srv EXCEPT !.pc = IF @ = "ready" THEN "feed" ELSE "next"]
    /\ UNCHANGED <<t_ops, t_send, t_recv, t_ret, t_wbuf, t_c2s, t_tags,
                   t_nsent, t_nread, t_last, t_batches>>
    /\ UNCHANGED t_faults
    /\ TFrame

\* receive_operations: connection_r.next().await
TRecvNext ==
    /\ t_ret = "running"
    /\ t_recv.pc = "next"
    /\ t_s2c # <<>>
    /\ t_recv' = [t_recv EXCEPT !.pc = "tag", !.resp = Some(Head(t_s2c))]
    /\ t_s2c' = Tail(t_s2c)
    /\ t_nread' = t_nread + 1
    /\ UNCHANGED <<t_ops, t_send, t_ret, t_wbuf, t_c2s, t_srv, t_sbuf, t_tags,
                   t_nsent, t_last, t_batches>>
    /\ UNCHANGED t_faults
    /\ TFrame

\* receive_operations: inner_r.recv().await and the match on (resp, sync)
TRecvTag ==
    /\ t_ret = "running"
    /\ t_recv.pc = "tag"
    /\ t_tags # <<>>
    /\ LET resp == Unwrap(t_recv.resp)
           tag  == Head(t_tags)
           m    == receive_match(resp, tag)
       IN  /\ t_tags' = Tail(t_tags)
           /\ t_last' = [kind |-> "pair", k |-> t_nread, resp |-> resp, tag |-> tag,
                         queued |-> Len(t_tags), call |-> t_batches, res |-> m.res]
           /\ t_recv' = IF m.err
                        THEN [pc |-> "failed", j |-> t_recv.j, resp |-> None]
                        ELSE [pc |-> IF t_recv.j + 1 = Len(t_ops) THEN "done" ELSE "next",
                              j |-> t_recv.j + 1, resp |-> None]
    /\ UNCHANGED <<t_ops, t_send, t_ret, t_wbuf, t_c2s, t_srv, t_sbuf, t_s2c,
                   t_nsent, t_nread, t_batches>>
    /\ UNCHANGED t_faults
    /\ TFrame

\* do_operations: future::join(f1, f2).await returns when both halves have,
\* and the call returns the first error if there is one
TJoin ==
    /\ t_ret = "running"
    /\ t_send.pc \in {"done", "failed"}
    /\ t_recv.pc \in {"done", "failed"}
    /\ t_ret' = IF t_send.pc = "failed" \/ t_recv.pc = "failed" THEN "Err" ELSE "Ok"
    /\ UNCHANGED <<t_ops, t_send, t_recv, t_wbuf, t_c2s, t_srv, t_sbuf, t_s2c, t_tags,
                   t_nsent, t_nread, t_last, t_batches>>
    /\ UNCHANGED t_faults
    /\ TFrame

\* a fresh connection after WriterConnection::new, the server in its loop
TStart(batches, faults) ==
    /\ FANOUT = 2
    /\ CACHE_SIZE = 1
    /\ SIG_AVOID = 0
    /\ m_budget = MBudget
    /\ FnIdle
    /\ MVIdle
    /\ HIdle
    /\ MStorageIdle
    /\ MSessionIdle
    /\ OIdle
    /\ DagIdle
    /\ t_ops = <<>>
    /\ t_send = [pc |-> "done", i |-> 0]
    /\ t_recv = [pc |-> "done", j |-> 0, resp |-> None]
    /\ t_ret = "idle"
    /\ t_wbuf = <<>>
    /\ t_c2s = <<>>
    /\ t_srv = [pc |-> "poll", resp |-> None]
    /\ t_sbuf = <<>>
    /\ t_s2c = <<>>
    /\ t_tags = <<>>
    /\ t_nsent = 0
    /\ t_nread = 0
    /\ t_last = [kind |-> "none"]
    /\ t_batches = batches
    /\ t_faults = faults
    /\ k_conn = KNew
    /\ k_last = KNoCall

InitTcp == TStart(MaxBatches, MaxFaults)

TClient == TSendFeed \/ TSendFlush \/ TSendTransmit \/ TRecvNext \/ TRecvTag \/ TJoin

TServer == TSrvRequest \/ TSrvFeed \/ TSrvTransmit

NextTcp == (\E ops \in TBatches : TDoOperations(ops)) \/ TClient \/ TServer

SpecTcp == InitTcp /\ [][NextTcp]_vars

\* one do_operations call, every task scheduled fairly: the send half, the
\* receive half and the join are polled whenever they can make progress, the
\* server task runs, and the sockets deliver; a caller need not call
InitTcpLive == TStart(1, MaxFaults)

TSendHalf == TSendFeed \/ TSendFlush \/ TSendTransmit

TReceiveHalf == TRecvNext \/ TRecvTag

SpecTcpLive ==
    /\ InitTcpLive
    /\ [][NextTcp]_vars
    /\ WF_vars(TSendHalf)
    /\ WF_vars(TReceiveHalf)
    /\ WF_vars(TJoin)
    /\ WF_vars(TServer)

\* C27: in the TCP writer client the k-th response read from the connection
\* is interpreted with the tag (Sync, record name) of the k-th request sent on
\* it: the tags wait in send order, and the response paired with a tag is the
\* server's answer to the request the tag was queued for, of a kind that
\* matches the tag's Sync, however far the send half runs ahead.
C27_ResponsePairedWithItsTag ==
    /\ \A a \in 1..Len(t_tags) : t_tags[a].name = t_nsent - Len(t_tags) + a
    /\ t_last.kind = "pair" =>
          /\ t_last.tag.name = t_last.k
          /\ t_last.resp.for = t_last.k
          /\ t_last.res # "mismatched response"

\* the second call on the connection pairs a response while two more tags
\* wait behind the one it takes, after the server's storage failed on a request
C27_Witness ==
    /\ t_last.kind = "pair"
    /\ t_last.call = 0
    /\ t_last.queued >= 3
    /\ t_last.k < t_nsent
    /\ t_ret = "running"
    /\ t_faults = 0

\* While neither half of a call fails, flow control does its work: with
\* bounded buffers in both directions and fair scheduling, a do_operations
\* call of any length returns Ok with every response received unless one of
\* its halves fails (a property of SpecTcpLive).
TcpCompletesUnlessHalfFails ==
    (t_ret = "running") ~>
        \/ t_ret = "Ok" /\ t_recv.j = Len(t_ops) /\ t_tags = <<>>
        \/ t_send.pc = "failed"
        \/ t_recv.pc = "failed"

\* the longest batch, longer than all the buffers together, returned Ok
TcpLongBatchOk ==
    /\ t_ret = "Ok"
    /\ Len(t_ops) = MaxOps
    /\ Len(t_ops) > 2 * (MaxBuf + MaxWire)
    /\ t_nread = MaxOps

\* C28: with bounded buffering in both directions, no do_operations call
\* reaches a state where the client waits for the server to read requests
\* while the server waits for the client to read responses.
C28_NeverMutuallyBlocked ==
    ~ /\ t_ret = "running"
      /\ t_send.pc \in {"ready", "flush"}
      /\ Len(t_c2s) >= MaxWire
      /\ t_srv.pc = "ready"
      /\ Len(t_s2c) >= MaxWire
      /\ t_recv.pc \in {"done", "failed"}

\* C29: when either half of do_operations fails, do_operations returns
\* (an error), whether or not the other half can finish.
C29_FailureReturns ==
    (t_send.pc = "failed" \/ t_recv.pc = "failed") ~> (t_ret = "Err")

-----------------------------------------------------------------------------
(* The checkpointing writer client (rustdc client_internal/writer.rs) facing *)
(* an arbitrary server.  Its Merkle root is the one of merkle.rs at the      *)
(* crate root, which it imports; the signature functions of crypto.rs at    *)
(* the crate root have no body, and are modelled by what the specification  *)
(* says of signatures.                                                      *)

MaxKOps  == 4           \* operations of one do_operations call
MaxCalls == 2           \* do_operations calls on one checkpointing connection

\* hash_data of a record: the hash of its sequence number and encrypted data
hash_seq_data(seqno, data) == <<-5, seqno, data>>

\* a signed hash verifies under a key when that key signed the hash it carries
verify_signed_hash(signed_hash, key) ==
    signed_hash.signature.by = key /\ signed_hash.signature.msg = signed_hash.hash

\* merkle.rs merkle_tree_root: the hashes, then the additional hash; every
\* slot of a layer's last node is filled from index start_index + 1, which is
\* out of bounds (None here) when the last node has a single child
RECURSIVE KRootLoop(_)
KRootLoop(current_layer) ==
    LET len_next_layer == (Len(current_layer) - 1) \div FANOUT + 1
        start_index == (len_next_layer - 1) * FANOUT
        last_len == Len(current_layer) - start_index
        last_tree == [i \in 1..FANOUT |->
                        IF i <= last_len THEN current_layer[start_index + 2]
                        ELSE NULL_HASH]
        next_layer == [i \in 1..len_next_layer |->
                        IF i < len_next_layer
                        THEN hash_node(Group(current_layer, i))
                        ELSE hash_node(last_tree)]
    IN  IF last_len = 1 THEN None
        ELSE IF Len(next_layer) > 1 THEN KRootLoop(next_layer)
        ELSE Some(next_layer[1])

merkle_root(hashes, additional_hash) == KRootLoop(hashes \o <<additional_hash>>)

\* client_internal send_operations up to the operation whose feed fails
\* (stop = 0: none fails): the arm of each operation
RECURSIVE KSendLoop(_, _, _, _)
KSendLoop(ops, i, stop, st) ==
    IF i > Len(ops) THEN st
    ELSE
    LET root == merkle_root(st.uncommitted_hashes, st.last_commit_hash)
        st1 ==
            IF ops[i] = "Record"
            THEN [st EXCEPT
                    !.uncommitted_hashes = Append(@, hash_seq_data(st.next_sequence_number, 1)),
                    !.next_sequence_number = @ + 1]
            ELSE IF ~IsSome(root) THEN [st EXCEPT !.panicked = TRUE]
            ELSE [st EXCEPT
                    !.last_commit_hash = Unwrap(root),
                    !.uncommitted_hashes = <<>>,
                    !.finished = Append(@, <<Unwrap(root), st.next_sequence_number>>)]
    IN  IF st1.panicked \/ i = stop THEN st1 ELSE KSendLoop(ops, i + 1, stop, st1)

\* do_operations, "verify that hashes match": the loop over hashes2
RECURSIVE KVerify(_, _, _, _)
KVerify(hashes1, hashes2, a, st) ==
    IF a > Len(hashes2) THEN st
    ELSE IF a > Len(hashes1) THEN [st EXCEPT !.res = "panicked"]
    ELSE IF hashes1[a][1] = hashes2[a]
    THEN KVerify(hashes1, hashes2, a + 1,
                 [st EXCEPT !.last_commit_hash = hashes1[a][1],
                            !.next_commit_start_number = hashes1[a][2]])
    ELSE KVerify(hashes1, hashes2, a + 1, [st EXCEPT !.res = "Err"])

get_checkpoint(conn) == <<conn.next_commit_start_number, conn.last_commit_hash>>

\* the responses an arbitrary server can send while a call runs
KResponses ==
    {[type |-> "WriteData", ok |-> b] : b \in BOOLEAN}
    \cup {[type |-> "WriteCommit", signed_hash |-> None]}
    \cup {[type |-> "WriteCommit",
           signed_hash |-> Some([signature |-> sign(h, key), hash |-> h])] :
            h \in {k_last.hashes1[a][1] : a \in 1..Len(k_last.hashes1)}
                    \cup {k_last.before[2]},
            key \in {ServerKey, OtherKey}}

KFrame == UNCHANGED <<cfgVars, fnVars, hVars, merkleVars, dagVars, tcpVars>>

\* do_operations: the send half, up to the feed that fails if one does
KDoOperations(ops, stop) ==
    /\ k_last.res \in {"idle", "Ok", "Err"}
    /\ k_last.calls < MaxCalls
    /\ stop <= Len(ops)
    /\ LET st == KSendLoop(ops, 1, stop,
                    [uncommitted_hashes |-> k_conn.uncommitted_hashes,
                     next_sequence_number |-> k_conn.next_sequence_number,
                     last_commit_hash |-> k_conn.last_commit_hash,
                     finished |-> <<>>, panicked |-> FALSE])
       IN  /\ k_conn' = [k_conn EXCEPT
                           !.uncommitted_hashes = st.uncommitted_hashes,
                           !.next_sequence_number = st.next_sequence_number]
           /\ k_last' = [calls |-> k_last.calls + 1, ops |-> ops,
                         send_err |-> stop > 0, hashes1 |-> st.finished,
                         hashes2 |-> <<>>, j |-> 0, recv |-> "run",
                         res |-> IF st.panicked THEN "panicked" ELSE "running",
                         before |-> get_checkpoint(k_conn)]
    /\ KFrame

\* receive_operations, one operation: the response read and the match on (resp, op)
KReceive(resp) ==
    /\ k_last.res = "running"
    /\ k_last.recv = "run"
    /\ k_last.j < Len(k_last.ops)
    /\ LET op == k_last.ops[k_last.j + 1]
           next == IF k_last.j + 1 = Len(k_last.ops) THEN "done" ELSE "run"
       IN  k_last' =
             IF resp.type = "WriteData" /\ op = "Record"
             THEN IF resp.ok THEN [k_last EXCEPT !.j = @ + 1, !.recv = next]
                  ELSE [k_last EXCEPT !.recv = "err"]
             ELSE IF resp.type = "WriteCommit" /\ op = "Commit"
             THEN IF /\ IsSome(resp.signed_hash)
                     /\ verify_signed_hash(Unwrap(resp.signed_hash), ServerKey)
                  THEN [k_last EXCEPT !.j = @ + 1, !.recv = next,
                                      !.hashes2 = Append(@, Unwrap(resp.signed_hash).hash)]
                  ELSE [k_last EXCEPT !.recv = "err"]
             ELSE [k_last EXCEPT !.recv = "err"]
    /\ UNCHANGED k_conn
    /\ KFrame

\* receive_operations: the stream ended
KStreamEnded ==
    /\ k_last.res = "running"
    /\ k_last.recv = "run"
    /\ k_last' = [k_last EXCEPT !.recv = "ended"]
    /\ UNCHANGED k_conn
    /\ KFrame

\* do_operations after the join: the hashes are compared, the checkpoint
\* updated, and on an error the transient variables thrown away
KJoin ==
    /\ k_last.res = "running"
    /\ k_last.recv \in {"done", "err", "ended"}
    /\ LET st == KVerify(k_last.hashes1, k_last.hashes2, 1,
                    [last_commit_hash |-> k_conn.last_commit_hash,
                     next_commit_start_number |-> k_conn.next_commit_start_number,
                     res |-> IF k_last.send_err \/ k_last.recv # "done"
                             THEN "Err" ELSE "Ok"])
       IN  /\ k_last' = [k_last EXCEPT !.res = st.res]
           /\ k_conn' =
                IF st.res = "Ok"
                THEN [k_conn EXCEPT
                        !.last_commit_hash = st.last_commit_hash,
                        !.next_commit_start_number = st.next_commit_start_number]
                ELSE [last_commit_hash |-> st.last_commit_hash,
                      next_commit_start_number |-> st.next_commit_start_number,
                      next_sequence_number |-> st.next_commit_start_number,
                      uncommitted_hashes |-> <<>>]
    /\ KFrame

InitCheckpoint == TStart(0, 0)

NextCheckpoint ==
    \/ \E ops \in SeqsUpTo({"Record", "Commit"}, MaxKOps) \ {<<>>}, stop \in 0..MaxKOps :
          KDoOperations(ops, stop)
    \/ \E resp \in KResponses : KReceive(resp)
    \/ KStreamEnded
    \/ KJoin

SpecCheckpoint == InitCheckpoint /\ [][NextCheckpoint]_vars

\* the commits of the call confirmed in order: the longest prefix of
\* hashes1 whose roots the verified acknowledgements repeat
RECURSIVE ConfirmedPrefix(_, _, _)
ConfirmedPrefix(hashes1, hashes2, a) ==
    IF a <= Len(hashes1) /\ a <= Len(hashes2) /\ hashes1[a][1] = hashes2[a]
    THEN ConfirmedPrefix(hashes1, hashes2, a + 1)
    ELSE a - 1

\* C30: after do_operations of the checkpointing client has returned, Ok or
\* Err, the checkpoint is that of the last commit of the call confirmed in
\* order (its root and those of all commits before it in the call are the
\* hashes of the server's verified acknowledgements), or the checkpoint of
\* before the call if the first commit was not confirmed.
C30_CheckpointConfirmedPrefix ==
    k_last.res \in {"Ok", "Err"} =>
        LET n == ConfirmedPrefix(k_last.hashes1, k_last.hashes2, 1)
        IN  get_checkpoint(k_conn) =
                IF n = 0 THEN k_last.before
                ELSE <<k_last.hashes1[n][2], k_last.hashes1[n][1]>>

-----------------------------------------------------------------------------
(* shared/merkle.rs called on its own: the client's merkle_tree_root and the
   server's merkle_tree_storage on the same leaves *)

MaxTreeFanout == 3      \* FANOUT ranges over 2..MaxTreeFanout in SpecTree
MaxLeaves == 4          \* record hashes of one tree
NLeafHashes == 3        \* distinct record hashes of the leaves

\* the additional hash of a commit: the capsule name or the root of an earlier commit
TreeAdditional == {dc_name, merkle_tree_root(<<>>, dc_name)}

InitTree ==
    /\ FANOUT \in 2..MaxTreeFanout
    /\ CACHE_SIZE = 1
    /\ SIG_AVOID = 0
    /\ m_budget = MBudget
    /\ f_call \in {Some([hashes |-> h, additional_hash |-> a]) :
                      h \in SeqsUpTo({hash_data(d) : d \in 1..NLeafHashes}, MaxLeaves),
                      a \in TreeAdditional}
    /\ f_ret = None
    /\ MVIdle
    /\ HIdle
    /\ TIdle
    /\ MStorageIdle
    /\ MSessionIdle
    /\ OIdle
    /\ DagIdle

\* the client computes the root to sign (commit_request) and the server builds
\* the blocks to store (handle_commit) from the same leaves
TreeCall ==
    /\ f_ret = None
    /\ LET c == Unwrap(f_call)
       IN  f_ret' = Some([storage |-> merkle_tree_storage(c.hashes, c.additional_hash),
                          root |-> merkle_tree_root(c.hashes, c.additional_hash),
                          answer |-> None])
    /\ UNCHANGED <<cfgVars, f_call, hVars, tVars, dagVars, merkleVars>>

NotNull(h) == h # NULL_HASH

\* get_all_leaves, the for loop over `level`: the children that are not NULL_HASH
RECURSIVE NextLevel(_, _, _)
NextLevel(ns, level, i) ==
    IF i > Len(level) THEN <<>>
    ELSE SelectSeq(ns[level[i]].children, NotNull) \o NextLevel(ns, level, i + 1)

\* get_all_leaves, the while loop: `depth` levels down from `level`
RECURSIVE LeavesLoop(_, _, _)
LeavesLoop(ns, level, depth) ==
    IF depth = 0 THEN [failed |-> FALSE, level |-> level]
    ELSE IF \E i \in 1..Len(level) : level[i] \notin DOMAIN ns
    THEN [failed |-> TRUE, level |-> <<>>]
    ELSE LeavesLoop(ns, NextLevel(ns, level, 1), depth - 1)

\* server/subscriber.rs, get_all_leaves; level.pop().unwrap() panics on an
\* empty level, which ends the connection with no response
get_all_leaves(ns, hash) ==
    IF hash \notin DOMAIN ns \/ ns[hash].root_info = None
    THEN [type |-> "Failed", records |-> <<>>, prev_commit |-> NULL_HASH]
    ELSE LET l == LeavesLoop(ns, <<hash>>, Unwrap(ns[hash].root_info).depth)
         IN  IF l.failed
             THEN [type |-> "Failed", records |-> <<>>, prev_commit |-> NULL_HASH]
             ELSE IF l.level = <<>>
             THEN [type |-> "Panic", records |-> <<>>, prev_commit |-> NULL_HASH]
             ELSE [type |-> "SubscribeRecords",
                   records |-> SubSeq(l.level, 1, Len(l.level) - 1),
                   prev_commit |-> l.level[Len(l.level)]]

\* client/subscriber.rs, SubscriberConnection::records on the response
subscriber_records(commit_name, resp) ==
    IF resp.type = "SubscribeRecords"
    THEN IF commit_name = merkle_tree_root(resp.records, resp.prev_commit)
         THEN [ok |-> TRUE, records |-> resp.records, prev_commit |-> resp.prev_commit]
         ELSE [ok |-> FALSE, records |-> <<>>, prev_commit |-> NULL_HASH]
    ELSE [ok |-> FALSE, records |-> <<>>, prev_commit |-> NULL_HASH]

\* the batch is committed by the writer on an empty capsule (handle_commit),
\* then a subscriber asks for Records(root)
TreeRecords ==
    /\ IsSome(f_ret)
    /\ Unwrap(f_ret).answer = None
    /\ LET c == Unwrap(f_call)
           r == Unwrap(f_ret)
           committed == handle_commit([DCContext_new EXCEPT !.uncommitted_hashes = c.hashes],
                                      MStorage, c.additional_hash, sign(r.root, WriterKey))
           resp == get_all_leaves(committed.st.ns, r.root)
       IN  f_ret' = Some([r EXCEPT !.answer =
                              Some([committed |-> committed.ok, resp |-> resp,
                                    client |-> subscriber_records(r.root, resp)])])
    /\ UNCHANGED <<cfgVars, f_call, hVars, tVars, dagVars, merkleVars>>

NextTree == TreeCall \/ TreeRecords

SpecTree == InitTree /\ [][NextTree]_vars

\* C35: for every successfully committed batch R1..Rn with additional hash A,
\* the server answers Records(root) with (R1..Rn in commit order, A), and the
\* subscriber's check merkle_tree_root(records, prev_commit) = root accepts it.
C35_RecordsAnswerIsTheBatch ==
    (IsSome(f_ret) /\ IsSome(Unwrap(f_ret).answer)) =>
        LET c == Unwrap(f_call)
            a == Unwrap(Unwrap(f_ret).answer)
        IN  a.committed =>
                /\ a.resp.type = "SubscribeRecords"
                /\ a.resp.records = c.hashes
                /\ a.resp.prev_commit = c.additional_hash
                /\ a.client.ok

\* C33: for every list of record hashes, the empty one included, and every
\* additional hash, the root that merkle_tree_storage returns is the root that
\* merkle_tree_root returns, whatever FANOUT >= 2 is.
C33_StorageRootIsClientRoot ==
    IsSome(f_ret) => Unwrap(f_ret).storage.root = Unwrap(f_ret).root

\* C33 witness: both functions have returned on the longest list with the
\* larger fan-out, and also on the empty list (a tree of one node)
C33_Witness ==
    /\ IsSome(f_ret)
    /\ Unwrap(f_ret).storage.root = Unwrap(f_ret).root
    /\ \/ Len(Unwrap(f_call).hashes) = MaxLeaves /\ FANOUT = MaxTreeFanout
       \/ Unwrap(f_call).hashes = <<>>

\* the children of a tree block, as a set
ChildSet(block) == {block.children[j] : j \in 1..Len(block.children)}

\* C34: in the output of merkle_tree_storage exactly one tree block is signed:
\* the last one, which is the root and has no parent. Every other tree block
\* has a parent that is a block of the output with that block among its
\* children. Every record block carries a record hash, in the order given, and
\* its parent is a block of the lowest layer with the record among its
\* children. The additional-hash parent is the block of the lowest layer
\* whose first child is the additional hash.
C34_StorageOutputShape ==
    IsSome(f_ret) =>
        LET c  == Unwrap(f_call)
            t  == Unwrap(f_ret).storage
            tb == t.treeblocks
            n  == Len(tb)
            lowest == 1..LenNextLayer(<<c.additional_hash>> \o c.hashes)
        IN  /\ n >= 1
            /\ \A p \in 1..n : tb[p].signed <=> (p = n)
            /\ tb[n].name = t.root
            /\ tb[n].parent = None
            /\ \A p \in 1..(n - 1) :
                   /\ IsSome(tb[p].parent)
                   /\ \E q \in 1..n : /\ tb[q].name = Unwrap(tb[p].parent)
                                       /\ tb[p].name \in ChildSet(tb[q])
            /\ Len(t.records) = Len(c.hashes)
            /\ \A i \in 1..Len(t.records) :
                   /\ t.records[i].name = c.hashes[i]
                   /\ \E q \in lowest : /\ tb[q].name = t.records[i].parent
                                          /\ t.records[i].name \in ChildSet(tb[q])
            /\ \E q \in lowest : /\ tb[q].name = t.additional_hash_parent
                                   /\ tb[q].children[1] = c.additional_hash

\* C34 witness: a tree of three layers has been built, with record blocks
\* under more than one block of the lowest layer
C34_Witness ==
    /\ IsSome(f_ret)
    /\ Unwrap(f_ret).storage.depth = 3
    /\ Len(Unwrap(f_ret).storage.records) = MaxLeaves
    /\ Unwrap(f_ret).storage.records[1].parent # Unwrap(f_ret).storage.records[MaxLeaves].parent
    /\ Unwrap(f_ret).storage.treeblocks[1].parent # None

-----------------------------------------------------------------------------
(* client/subscriber.rs: SubscriberConnection::freshest_commits on a
   SubscribeCommits response *)

MaxHeads == 2           \* (hash, signature) pairs of one SubscribeCommits response

\* commit roots a server may name
HeadHashes == {merkle_tree_root(<<>>, dc_name), merkle_tree_root(<<hash_data(1)>>, dc_name)}

\* the pairs of a response: signed by the writer or not, over the hash or not
HeadPairs ==
    {[hash |-> h, signature |-> sign(m, k)] :
        h \in HeadHashes, m \in HeadHashes, k \in {WriterKey, OtherKey}}

\* the match arm for Response::SubscribeCommits(commits)
freshest_commits(commits, writer_pub_key) ==
    LET good_commits == <<>>
    IN  IF \E i \in 1..Len(commits) :
               ~verify_signature(commits[i].signature, commits[i].hash, writer_pub_key)
        THEN [ok |-> FALSE, err |-> "BadSignature", commits |-> <<>>]
        ELSE [ok |-> TRUE, err |-> "", commits |-> good_commits]

InitFreshest ==
    /\ FANOUT = 2
    /\ CACHE_SIZE = 1
    /\ SIG_AVOID = 0
    /\ m_budget = MBudget
    /\ f_call \in {Some([commits |-> c]) : c \in SeqsUpTo(HeadPairs, MaxHeads)}
    /\ f_ret = None
    /\ MVIdle
    /\ HIdle
    /\ TIdle
    /\ MStorageIdle
    /\ MSessionIdle
    /\ OIdle
    /\ DagIdle

FreshestCall ==
    /\ f_ret = None
    /\ f_ret' = Some(freshest_commits(Unwrap(f_call).commits, WriterKey))
    /\ UNCHANGED <<cfgVars, f_call, hVars, tVars, dagVars, merkleVars>>

NextFreshest == FreshestCall

SpecFreshest == InitFreshest /\ [][NextFreshest]_vars

\* C32: freshest_commits returns every hash of the SubscribeCommits response,
\* in order, when all the writer signatures verify, and BadSignature when one
\* of them does not.
C32_FreshestCommitsReturnsHeads ==
    IsSome(f_ret) =>
        LET commits == Unwrap(f_call).commits
            r == Unwrap(f_ret)
        IN  IF \A i \in 1..Len(commits) :
                   verify_signature(commits[i].signature, commits[i].hash, WriterKey)
            THEN r.ok /\ r.commits = [i \in 1..Len(commits) |-> commits[i].hash]
            ELSE ~r.ok /\ r.err = "BadSignature"

====
